---- MODULE Spec2Model ----
(***************************************************************************)
(* Model of ExamsGPT's analysis core (src/src/ai_service.py): the          *)
(* orchestrator methods analyze_exam_screenshot / analyze_multi_screenshots*)
(* the provider adapters they dispatch to, the streaming loops and the     *)
(* sink callback.                                                          *)
(*                                                                         *)
(* Text is modelled by TLA+ strings; strip, lower, startswith, join and    *)
(* the regular expressions of _clean_json_response are computed on them.   *)
(* The configuration object is an input: its fields are the attributes     *)
(* the code reads.  debug_latency and the token counters only feed log     *)
(* lines and the tokens_used field, which no property here reads; they     *)
(* are not part of the state.                                              *)
(***************************************************************************)
EXTENDS Integers, Sequences, FiniteSets, TLC

\* Bounds of the model.
MaxEvents == 2      \* vendor events consumed from one stream
MaxImages == 2      \* screenshots handed to one multi-image call
MaxCaptures == 3    \* screenshots added to the queue
MaxDrains == 3      \* drains of the queue (get_all calls)

(***************************************************************************)
(* Text helpers (Python str methods).                                      *)
(***************************************************************************)
CharAt(s, i) == SubSeq(s, i, i)

IsSpace(c) == c \in {" ", "\n"}

RECURSIVE lstrip(_)
lstrip(s) ==
    IF s = "" THEN ""
    ELSE IF IsSpace(Head(s)) THEN lstrip(Tail(s)) ELSE s

RECURSIVE rstrip(_)
rstrip(s) ==
    IF s = "" THEN ""
    ELSE IF IsSpace(CharAt(s, Len(s))) THEN rstrip(SubSeq(s, 1, Len(s) - 1)) ELSE s

strip(s) == rstrip(lstrip(s))

startswith(s, prefix) ==
    Len(s) >= Len(prefix) /\ SubSeq(s, 1, Len(prefix)) = prefix

\* str.lower on one character (ASCII letters).
LowerChar(c) ==
    CASE c = "A" -> "a" [] c = "B" -> "b" [] c = "C" -> "c" [] c = "D" -> "d"
      [] c = "E" -> "e" [] c = "F" -> "f" [] c = "G" -> "g" [] c = "H" -> "h"
      [] c = "I" -> "i" [] c = "J" -> "j" [] c = "K" -> "k" [] c = "L" -> "l"
      [] c = "M" -> "m" [] c = "N" -> "n" [] c = "O" -> "o" [] c = "P" -> "p"
      [] c = "Q" -> "q" [] c = "R" -> "r" [] c = "S" -> "s" [] c = "T" -> "t"
      [] c = "U" -> "u" [] c = "V" -> "v" [] c = "W" -> "w" [] c = "X" -> "x"
      [] c = "Y" -> "y" [] c = "Z" -> "z"
      [] OTHER -> c

RECURSIVE lower(_)
lower(s) == IF s = "" THEN "" ELSE LowerChar(Head(s)) \o lower(Tail(s))

\* ''.join(chunks)
RECURSIVE join(_)
join(chunks) == IF chunks = <<>> THEN "" ELSE Head(chunks) \o join(Tail(chunks))

(***************************************************************************)
(* _clean_json_response: the two re.search calls, computed by position.    *)
(***************************************************************************)
\* The backquote cannot be written inside a TLA+ string: the model's texts
\* write the apostrophe for it, and contain no other apostrophe.
Fence == "'''"

FenceAt(s, i) == i >= 1 /\ i + 2 <= Len(s) /\ SubSeq(s, i, i + 2) = Fence

\* Start positions at which  FENCE(?:json)?\s*([\s\S]*?)\s*FENCE  can match:
\* an opening fence with a closing fence that does not overlap it.
CodeBlockStarts(s) ==
    {i \in 1..Len(s) : FenceAt(s, i) /\ \E j \in (i + 3)..Len(s) : FenceAt(s, j)}

Min(S) == CHOOSE x \in S : \A y \in S : x <= y
Max(S) == CHOOSE x \in S : \A y \in S : x >= y

\* First position >= p that is not whitespace (Len(s)+1 when there is none).
SkipSpace(s, p) ==
    Min({k \in p..(Len(s) + 1) : k = Len(s) + 1 \/ ~IsSpace(CharAt(s, k))})

\* group(1) of the code-block pattern for the leftmost match.
CodeBlockGroup(s) ==
    LET i     == Min(CodeBlockStarts(s))
        \* (?:json)? is greedy: taken when the tag follows the fence
        body  == IF i + 6 <= Len(s) /\ SubSeq(s, i + 3, i + 6) = "json"
                 THEN i + 7 ELSE i + 3
        \* \s* is greedy
        p     == SkipSpace(s, body)
        \* ([\s\S]*?) is lazy: it ends at the first position from which
        \* \s*FENCE matches
        q     == Min({k \in p..Len(s) : FenceAt(s, SkipSpace(s, k))})
    IN  SubSeq(s, p, q - 1)

\* (\{[\s\S]*\}) : leftmost opening brace, greedy up to the last closing brace.
OpenBraces(s)  == {k \in 1..Len(s) : CharAt(s, k) = "{"}
CloseBraces(s) == {k \in 1..Len(s) : CharAt(s, k) = "}"}

JsonObjectMatches(s) ==
    /\ OpenBraces(s) # {}
    /\ CloseBraces(s) # {}
    /\ Max(CloseBraces(s)) > Min(OpenBraces(s))

JsonObjectGroup(s) == SubSeq(s, Min(OpenBraces(s)), Max(CloseBraces(s)))

_clean_json_response(text) ==
    LET cleaned0 == strip(text)
        cleaned1 == IF CodeBlockStarts(cleaned0) # {}
                    THEN strip(CodeBlockGroup(cleaned0))
                    ELSE cleaned0
    IN  IF ~startswith(cleaned1, "{") /\ JsonObjectMatches(cleaned1)
        THEN strip(JsonObjectGroup(cleaned1))
        ELSE cleaned1

(***************************************************************************)
(* Inputs: configuration values, vendor responses, vendor stream events,   *)
(* exceptions.                                                             *)
(***************************************************************************)
Providers == {"openai", "gemini"}

\* openai.model values: two in the gpt-5 family (one in upper case), one
\* legacy model, one that only contains the family name.
ModelNames == {"gpt-5.2", "GPT-5", "gpt-4o", "my-gpt-5"}

gemini_model == "gemini-3-pro-preview"

\* What AIService was constructed with as streaming_callback: nothing, the
\* bound method StreamingWebhookOutput.send_streaming_chunk (which catches
\* every exception of its own), or some other callable, which may raise.
Callbacks == {"None", "send_streaming_chunk", "callable"}

\* Texts of streamed fragments ("" is an empty delta or a part without text).
FragTexts == {"", " ", "a", "{a}", "'''"}

\* Texts of buffered responses.
ResponseTexts ==
    {"", " ", " a ", "{a}", "'''json\n{a}\n'''", "''''''", "x {a} y"}

\* Optional values: <<>> is None / an absent key, <<v>> is the value v.
None == <<>>
Some(v) == <<v>>

\* Messages of the exceptions the transport raises.
TransportErrors == {"Request timed out.", "Incorrect API key provided"}

\* Message of the exception a raising sink callback raises.
SinkError == "sink callback failed"

\* Messages of the exceptions the adapters raise themselves.
EmptyStreamError       == "Empty response received from streaming API"
EmptyGeminiStreamError == "Empty response received from Gemini streaming API"
EmptyGeminiError       == "Gemini returned empty response"
NoMessageError         == "Could not find message content in response output"
ExtractError           == "Unable to extract answer from API response: " \o NoMessageError
NoneStripError         == "'NoneType' object has no attribute 'strip'"
IndexErrorMsg          == "list index out of range"
NoneIterError          == "'NoneType' object is not iterable"

\* Buffered Completions responses: response.choices[0].message.content.
CompletionsResponses ==
    {[choices |-> <<>>]}
    \cup {[choices |-> <<[content |-> c]>>] :
             c \in {None} \cup {Some(t) : t \in ResponseTexts}}

\* Buffered Responses-API responses: response.output is None or a list of
\* items; a message item carries a list of content items, of which only
\* output_text items have a text attribute.
ContentItems ==
    {[type |-> "refusal", text |-> ""]}
    \cup {[type |-> "output_text", text |-> t] : t \in {"", " a ", "{a}"}}

OutputItems ==
    {[type |-> "reasoning", content |-> <<>>], [type |-> "message", content |-> <<>>]}
    \cup {[type |-> "message", content |-> <<c>>] : c \in ContentItems}

ResponsesResponses ==
    {[output |-> None], [output |-> Some(<<>>)]}
    \cup {[output |-> Some(<<i>>)] : i \in OutputItems}
    \cup {[output |-> Some(<<i, j>>)] :
             i \in {[type |-> "reasoning", content |-> <<>>],
                    [type |-> "message", content |-> <<>>],
                    [type |-> "message",
                     content |-> <<[type |-> "refusal", text |-> ""]>>],
                    [type |-> "message",
                     content |-> <<[type |-> "output_text", text |-> ""]>>]},
             j \in OutputItems}

\* Buffered Gemini responses: response.text.
GeminiResponses == {[text |-> c] : c \in {None} \cup {Some(t) : t \in ResponseTexts}}

\* Events of a Responses-API stream.  Delta events carry a delta attribute.
ResponsesEvents ==
    {[type |-> ty, delta |-> t] :
        ty \in {"response.reasoning_summary_text.delta", "response.output_text.delta"},
        t \in FragTexts}
    \cup {[type |-> ty, delta |-> ""] :
        ty \in {"response.created",
                "response.reasoning_summary_text.done",
                "response.web_search_call.searching",
                "response.web_search_call.done",
                "response.output_text.done",
                "response.done"}}

\* Chunks of a Completions stream: chunk.choices[0].delta.content.
CompletionsChunks ==
    {[choices |-> <<>>]}
    \cup {[choices |-> <<[content |-> c]>>] :
             c \in {None} \cup {Some(t) : t \in FragTexts}}

\* Chunks of a Gemini stream: chunk.candidates[0].content.parts, each part
\* with a text and the thought marker; parts may be None.
GeminiParts == {[text |-> t, thought |-> th] : t \in FragTexts, th \in BOOLEAN}

GeminiChunks ==
    {[candidates |-> FALSE, content |-> FALSE, parts |-> None],
     [candidates |-> TRUE,  content |-> FALSE, parts |-> None],
     [candidates |-> TRUE,  content |-> TRUE,  parts |-> None]}
    \cup {[candidates |-> TRUE, content |-> TRUE, parts |-> Some(<<p>>)] :
             p \in GeminiParts}
    \cup {[candidates |-> TRUE, content |-> TRUE, parts |-> Some(ps)] :
             ps \in {<<[text |-> "a", thought |-> TRUE],
                       [text |-> "{a}", thought |-> FALSE]>>,
                     <<[text |-> "a", thought |-> FALSE],
                       [text |-> " ", thought |-> FALSE]>>}}

(***************************************************************************)
(* State.                                                                  *)
(***************************************************************************)
VARIABLES
    config,              \* the Config object (read-only after Init)
    streaming_callback,  \* AIService.streaming_callback
    pc,                  \* position of the call: idle, streaming, done
    callKind,            \* "single" / "multi" / "" before the call
    invoked,             \* the adapter methods the orchestrator called
    answer_chunks,       \* the streaming adapter's accumulation list
    sink,                \* invocations of the callback, in order
    chunk_posts,         \* tally of send_streaming_chunk: invocations, POSTs
                         \* made, POSTs failed, POSTs made after a failed one
    arrived,             \* text fragments the vendor stream carried, in order
    events,              \* number of vendor events consumed
    exhausted,           \* the stream iterator ended normally
    origin,              \* first exception raised in the call (optional)
    caught,              \* exception that reached the orchestrator (optional)
    outcome,             \* "" / "returned" / "raised"
    result,              \* the dict returned (when outcome = "returned")
    raised,              \* the exception that escaped (when outcome = "raised")
    requests,            \* vendor endpoints the AIService has called, in order
    \* retry_on_transient_error and ExamsGPT.start
    func,                \* the wrapped function: "" / "callable" / "test_connection"
    retry_pc,            \* "idle" / "looping" / "done"
    attempt,             \* loop iterations of retry_on_transient_error completed
    calls,               \* calls of func made by the wrapper
    attempt_errors,      \* the exception func raised in each failed attempt
    sleeps,              \* the delays passed to time.sleep, in order
    last_exception,      \* last_exception of the wrapper (optional)
    retry_result,        \* how the wrapper ended: kind "" / "returned" / "raised"
    startup,             \* ExamsGPT.start: "" / "testing" / "running" / "exited"
    test_errors,         \* per request of the connection test: its exception (optional)
    \* ScreenshotQueue and the queue handlers of ExamsGPT
    queue,               \* ScreenshotQueue.queue
    captured,            \* screenshots captured so far (the next one is captured + 1)
    drained,             \* the lists returned by get_all, in order
    dropped,             \* the items removed by clear
    analysed,            \* the lists handed to analyze_multi_screenshots
    queue_status,        \* the sizes passed to send_queue_status
    send_log,            \* per handle_queue_send: "empty" / "analysed"
    last_op,             \* the last queue operation: add / clear / get_all / send
    \* main() and ExamsGPT.__init__
    settings,            \* what .env and config.yaml hold (optional: not read yet)
    main_pc,             \* "idle" / "looping" / "constructed" / "exited"
    init_attempt,        \* attempt of main's initialization loop
    init_errors,         \* the exceptions of the failed initialization attempts
    init_sleeps,         \* the delays main slept between initialization attempts
    clients,             \* the AI clients created so far
    fatal,               \* the exception main ended with (optional)
    \* CaptureManager: the triggers handled so far
    trigger_log,         \* per trigger: its handler and how its capture went
    grabs,               \* calls of ScreenCapture.capture_fullscreen
    single_analysed,     \* the images handed to analyze_exam_screenshot
    handled,             \* the image lists whose result went to handle_result
    cycle_log,           \* the calls of the analysis cycles, in order
    \* two analysis calls running in the two listener threads
    threads,             \* per listener thread: its call's position and locals
    \* WebhookOutput._send_with_retry
    send_pc,             \* "idle" / "sending" / "done"
    posts,               \* the outcomes of the POST attempts, in order
    waits,               \* the backoff delays slept, in milliseconds
    send_result,         \* what _send_with_retry returned (optional)
    \* the keyboard listener thread and the key presses waiting for it
    pending,             \* keys pressed and not yet handled, oldest first
    kb_pc,               \* "idle" / "copied" (inside get_all, before the clear)
    kb_items,            \* the copy get_all has made
    pressed,             \* number of key presses so far
    \* the StreamingWebhookOutput object and the analysis cycles using it
    message_id,          \* self.message_id (optional)
    next_id,             \* number of message ids generated so far
    messages,            \* the payloads handed to the webhook, in order
    cycles,              \* per listener thread: its analysis cycle
    cycle_count,         \* number of cycles begun
    \* ExamsGPT.running, the main loop and the two listeners
    app_running,         \* ExamsGPT.running
    loop_pc,             \* position of ExamsGPT.start after the connection test
    signalled,           \* the signals _signal_handler has handled
    listeners,           \* per listener: running flag and OS listeners
    listener_calls,      \* number of direct start/stop calls so far
    \* CaptureManager's key dispatch
    key_config,          \* trigger_key, queue_key, send_key
    key_handlers,        \* the key_handlers dict (empty before __init__)
    dispatched,          \* per key press: the key and the handlers invoked
    \* the module-level Gemini client of ai_service
    _gemini_client,      \* the global (optional)
    gemini_constructed,  \* number of genai.Client objects constructed
    gemini_pc,           \* per thread: position in _get_gemini_client
    gemini_returned      \* per thread: the instances returned to it

serviceVars == <<config, streaming_callback, pc, callKind, invoked, answer_chunks,
                 sink, arrived, events, exhausted, origin, caught, outcome,
                 result, raised, requests, chunk_posts>>

retryVars == <<func, retry_pc, attempt, calls, attempt_errors, sleeps,
               last_exception, retry_result, startup, test_errors>>

queueVars == <<queue, captured, drained, dropped, analysed, queue_status,
               send_log, last_op>>

mainVars == <<settings, main_pc, init_attempt, init_errors, init_sleeps, clients,
              fatal>>

triggerVars == <<trigger_log, grabs, single_analysed, handled, cycle_log>>

webhookVars == <<send_pc, posts, waits, send_result>>

keyboardVars == <<pending, kb_pc, kb_items, pressed>>

messageVars == <<message_id, next_id, messages, cycles, cycle_count>>

lifecycleVars == <<app_running, loop_pc, signalled, listeners, listener_calls>>

dispatchVars == <<key_config, key_handlers, dispatched>>

geminiVars == <<_gemini_client, gemini_constructed, gemini_pc, gemini_returned>>

afterDispatch == <<geminiVars>>

afterLifecycle == <<dispatchVars, afterDispatch>>

afterMessage == <<lifecycleVars, afterLifecycle>>

afterKeyboard == <<messageVars, afterMessage>>

sessionVars == <<keyboardVars, afterKeyboard>>

restVars == <<mainVars, triggerVars, threads, webhookVars, sessionVars>>

vars == <<serviceVars, retryVars, queueVars, restVars>>

configVars == <<config, streaming_callback>>

\* The listener threads of CaptureManager and a thread with no call running.
Listeners == {"keyboard", "mouse"}

IdleCall ==
    [pc |-> "idle", events |-> 0, answer_content |-> <<>>, stream |-> <<>>,
     answer |-> None]

\* retry_on_transient_error has not ended
NoRetryResult == [kind |-> "", value |-> None]

\* KeyboardListener.__init__ / MouseListener.__init__: self.listener = None,
\* self.running = False; no OS listener exists.
NewListener == [running |-> FALSE, listener |-> FALSE, created |-> 0, alive |-> 0,
                last |-> "none"]

IdleCycle == [pc |-> "idle", cycle |-> 0, kind |-> "", chunks |-> 0]

NoPosts == [invocations |-> 0, made |-> 0, failed |-> 0, after_failure |-> 0]

NoResult == [success |-> FALSE, answer |-> None, model |-> None, error |-> None]

Init ==
    /\ config \in [ai_provider : Providers,
                   openai_model : ModelNames,
                   streaming_enabled : BOOLEAN,
                   streaming_show_reasoning : BOOLEAN]
    /\ streaming_callback \in Callbacks
    /\ pc = "idle"
    /\ callKind = ""
    /\ invoked = {}
    /\ answer_chunks = <<>>
    /\ sink = <<>>
    /\ chunk_posts = NoPosts
    /\ arrived = <<>>
    /\ events = 0
    /\ exhausted = FALSE
    /\ origin = None
    /\ caught = None
    /\ outcome = ""
    /\ result = NoResult
    /\ raised = None
    /\ requests = <<>>
    /\ func = ""
    /\ retry_pc = "idle"
    /\ attempt = 0
    /\ calls = 0
    /\ attempt_errors = <<>>
    /\ sleeps = <<>>
    /\ last_exception = None
    /\ retry_result = NoRetryResult
    /\ startup = ""
    /\ test_errors = <<>>
    /\ queue = <<>>
    /\ captured = 0
    /\ drained = <<>>
    /\ dropped = <<>>
    /\ analysed = <<>>
    /\ queue_status = <<>>
    /\ send_log = <<>>
    /\ last_op = ""
    /\ settings = None
    /\ main_pc = "idle"
    /\ init_attempt = 0
    /\ init_errors = <<>>
    /\ init_sleeps = <<>>
    /\ clients = {}
    /\ fatal = None
    /\ trigger_log = <<>>
    /\ cycle_log = <<>>
    /\ grabs = 0
    /\ single_analysed = <<>>
    /\ handled = <<>>
    /\ threads = [t \in Listeners |-> IdleCall]
    /\ app_running = FALSE
    /\ loop_pc = "none"
    /\ signalled = {}
    /\ listeners = [l \in Listeners |-> NewListener]
    /\ listener_calls = 0
    /\ key_config = [trigger_key |-> "", queue_key |-> None, send_key |-> None]
    /\ key_handlers = [k \in {} |-> ""]
    /\ dispatched = <<>>
    /\ _gemini_client = None
    /\ gemini_constructed = 0
    /\ gemini_pc = [t \in Listeners |-> "idle"]
    /\ gemini_returned = [t \in Listeners |-> <<>>]
    /\ message_id = None
    /\ next_id = 0
    /\ messages = <<>>
    /\ cycles = [t \in Listeners |-> IdleCycle]
    /\ cycle_count = 0
    /\ pending = <<>>
    /\ kb_pc = "idle"
    /\ kb_items = <<>>
    /\ pressed = 0
    /\ send_pc = "idle"
    /\ posts = <<>>
    /\ waits = <<>>
    /\ send_result = None

(***************************************************************************)
(* Configuration predicates of AIService.                                  *)
(***************************************************************************)
_uses_gemini == config.ai_provider = "gemini"

\* _uses_responses_api with the lower() call missing.
_uses_responses_api_CaseSensitive == startswith(config.openai_model, "gpt-5")

_uses_responses_api == startswith(lower(config.openai_model), "gpt-5")

\* use_streaming of analyze_exam_screenshot and analyze_multi_screenshots
use_streaming == config.streaming_enabled /\ streaming_callback # "None"

\* `if self.streaming_callback:`
CallbackSet == streaming_callback # "None"

\* What one requests.post does: a response with a status code, or an
\* exception.
Response(status_code) == [status_code |-> status_code, exception |-> ""]
PostRaises(e) == [status_code |-> 0, exception |-> e]

\* The POST of one streaming chunk.
ChunkPostOutcomes == {Response(200), Response(500), PostRaises("RequestException")}

\* A chunk delivery that lets the failure of its POST escape.
send_streaming_chunk_Propagates(post) ==
    [posts |-> <<post>>, raises |-> post.status_code # 200]

\* StreamingWebhookOutput.send_streaming_chunk: the POSTs one invocation
\* makes (one, without retry) and whether the invocation raises (never: a
\* status other than 200 is logged, every exception is caught).
send_streaming_chunk(post) == [posts |-> <<post>>, raises |-> FALSE]

\* The choices of "this invocation of the callback raises".
RaiseChoices ==
    IF streaming_callback = "callable" THEN BOOLEAN
    ELSE IF streaming_callback = "send_streaming_chunk"
    THEN {send_streaming_chunk(post).raises : post \in ChunkPostOutcomes}
    ELSE {FALSE}

\* The callback invocations of a step (the growth of the sink log) are, with
\* the webhook sink, invocations of send_streaming_chunk: their POSTs.
\* The tally of chunk POSTs after the POSTs ps of one more invocation.
RECURSIVE Tally(_, _)
Tally(t, ps) ==
    IF ps = <<>> THEN t
    ELSE Tally([t EXCEPT !.made = @ + 1,
                         !.failed = IF Head(ps).status_code = 200 THEN @ ELSE @ + 1,
                         !.after_failure = IF t.failed > 0 THEN @ + 1 ELSE @],
               Tail(ps))

\* The tally after the invocations whose POSTs have the outcomes os.
RECURSIVE Invocations(_, _)
Invocations(t, os) ==
    IF os = <<>> THEN t
    ELSE Invocations(Tally([t EXCEPT !.invocations = @ + 1],
                           send_streaming_chunk(Head(os)).posts),
                     Tail(os))

ChunkPosting ==
    IF streaming_callback = "send_streaming_chunk"
    THEN \E os \in [1..(Len(sink') - Len(sink)) -> ChunkPostOutcomes] :
            chunk_posts' = Invocations(chunk_posts, os)
    ELSE chunk_posts' = chunk_posts

ModelUsed == IF _uses_gemini THEN gemini_model ELSE config.openai_model

StreamingVariants ==
    {"_analyze_with_responses_api_streaming",
     "_analyze_with_completions_api_streaming",
     "_analyze_with_gemini_streaming",
     "_analyze_multiple_with_gemini_streaming"}

GeminiStreamingVariants ==
    {"_analyze_with_gemini_streaming", "_analyze_multiple_with_gemini_streaming"}

\* The if/elif chain of analyze_exam_screenshot.
SingleRoute ==
    IF _uses_gemini
    THEN IF use_streaming THEN "_analyze_with_gemini_streaming"
                          ELSE "_analyze_with_gemini"
    ELSE IF use_streaming /\ _uses_responses_api
         THEN "_analyze_with_responses_api_streaming"
    ELSE IF use_streaming /\ ~_uses_responses_api
         THEN "_analyze_with_completions_api_streaming"
    ELSE IF _uses_responses_api
         THEN "_analyze_with_responses_api"
    ELSE "_analyze_with_completions_api"

\* The vendor endpoint an adapter calls (once, with no loop around the call).
Endpoint(variant) ==
    CASE variant \in {"_analyze_with_responses_api",
                      "_analyze_with_responses_api_streaming",
                      "_analyze_multiple_with_responses_api"} -> "responses.create"
      [] variant \in {"_analyze_with_completions_api",
                      "_analyze_with_completions_api_streaming",
                      "_analyze_multiple_with_completions_api"} -> "chat.completions.create"
      [] variant \in {"_analyze_with_gemini",
                      "_analyze_multiple_with_gemini"} -> "models.generate_content"
      [] OTHER -> "models.generate_content_stream"

\* An adapter that sends its request a second time.
Issue_Resend(log, variant) == Append(Append(log, Endpoint(variant)), Endpoint(variant))

\* The single `create` / `generate_content` call of an adapter.
Issue(log, variant) == Append(log, Endpoint(variant))

\* The if/elif chain of analyze_multi_screenshots.
MultiRoute ==
    IF _uses_gemini
    THEN IF use_streaming THEN "_analyze_multiple_with_gemini_streaming"
                          ELSE "_analyze_multiple_with_gemini"
    ELSE IF _uses_responses_api
         THEN "_analyze_multiple_with_responses_api"
    ELSE "_analyze_multiple_with_completions_api"

(***************************************************************************)
(* The sink callback and the except blocks.                                *)
(***************************************************************************)
Fragment(content, kind) == [content |-> content, kind |-> kind]

\* self.streaming_callback(content, kind)
Deliver(log, content, kind) == Append(log, Fragment(content, kind))

\* The dict built by the orchestrators' except blocks.
FailureResult(e) ==
    [success |-> FALSE, answer |-> None, model |-> Some(ModelUsed), error |-> Some(e)]

\* The dict built by every adapter on its normal path.
SuccessResult(answer) ==
    [success |-> TRUE, answer |-> Some(answer), model |-> Some(ModelUsed), error |-> None]

\* `except Exception as e:` of a streaming adapter: forward, then re-raise.
\* r says whether this invocation of the callback raises.
StreamingExcept(e, log, r) ==
    [sink |-> IF CallbackSet THEN Deliver(log, e, "error") ELSE log,
     exc  |-> IF CallbackSet /\ r THEN SinkError ELSE e]

\* `except Exception as e:` of analyze_exam_screenshot with the exception e
\* and the sink log so far.
SingleExcept(e, log, r) ==
    /\ caught' = Some(e)
    /\ sink' = IF CallbackSet THEN Deliver(log, e, "error") ELSE log
    /\ IF CallbackSet /\ r
       THEN /\ outcome' = "raised"
            /\ raised' = Some(SinkError)
            /\ result' = NoResult
       ELSE /\ outcome' = "returned"
            /\ raised' = None
            /\ result' = FailureResult(e)

\* `except Exception as e:` of analyze_multi_screenshots.
MultiExcept(e, log) ==
    /\ caught' = Some(e)
    /\ sink' = log
    /\ outcome' = "returned"
    /\ raised' = None
    /\ result' = FailureResult(e)

\* An exception e raised in the adapter: inside the try block of a streaming
\* adapter (inTry) it passes through that adapter's except block first, then
\* it reaches the except block of the orchestrator method kind.
Fails(kind, e, inTry, log, r1, r2) ==
    LET a == IF inTry THEN StreamingExcept(e, log, r1) ELSE [sink |-> log, exc |-> e]
    IN  /\ pc' = "done"
        /\ origin' = Some(e)
        /\ IF kind = "single"
           THEN SingleExcept(a.exc, a.sink, r2)
           ELSE MultiExcept(a.exc, a.sink)

\* The adapter returns its result and the orchestrator returns it.
Succeeds(answer, log) ==
    /\ pc' = "done"
    /\ origin' = None
    /\ caught' = None
    /\ sink' = log
    /\ outcome' = "returned"
    /\ raised' = None
    /\ result' = SuccessResult(answer)

(***************************************************************************)
(* Buffered adapters: answer extraction from one vendor response.          *)
(***************************************************************************)
Ok(answer) == [ok |-> TRUE,  value |-> answer]
Err(e)     == [ok |-> FALSE, value |-> e]

\* answer = response.choices[0].message.content.strip()
CompletionsAnswer(response) ==
    IF response.choices = <<>> THEN Err(IndexErrorMsg)
    ELSE IF response.choices[1].content = None THEN Err(NoneStripError)
    ELSE Ok(strip(response.choices[1].content[1]))

\* The `for output_item in response.output` loop: the stripped text of the
\* first message item whose content[0] has a text, None when there is none.
RECURSIVE FindMessage(_)
FindMessage(items) ==
    IF items = <<>> THEN None
    ELSE LET output_item == Head(items)
         IN  IF /\ output_item.type = "message"
                /\ output_item.content # <<>>
                /\ output_item.content[1].type = "output_text"
             THEN Some(strip(output_item.content[1].text))
             ELSE FindMessage(Tail(items))

\* _analyze_with_responses_api, phase 3
ResponsesAnswer(response) ==
    LET answer == IF response.output # None /\ response.output[1] # <<>>
                  THEN FindMessage(response.output[1])
                  ELSE None
    IN  IF answer = None \/ answer[1] = "" THEN Err(ExtractError) ELSE Ok(answer[1])

\* _analyze_multiple_with_responses_api: no guard on response.output
MultiResponsesAnswer(response) ==
    IF response.output = None THEN Err(NoneIterError)
    ELSE LET answer == FindMessage(response.output[1])
         IN  IF answer = None \/ answer[1] = "" THEN Err(NoMessageError)
             ELSE Ok(answer[1])

\* The fallback extraction left out.
GeminiFallback_Omitted(answer) == answer

\* `if not answer.startswith('{'): answer = self._clean_json_response(answer)`
GeminiFallback(answer) ==
    IF ~startswith(answer, "{") THEN _clean_json_response(answer) ELSE answer

\* _analyze_with_gemini and _analyze_multiple_with_gemini
GeminiAnswer(response) ==
    LET answer == IF response.text # None /\ response.text[1] # ""
                  THEN Some(strip(response.text[1]))
                  ELSE None
    IN  IF answer = None \/ answer[1] = "" THEN Err(EmptyGeminiError)
        ELSE Ok(GeminiFallback(answer[1]))

VendorResponses(variant) ==
    CASE variant \in {"_analyze_with_completions_api",
                      "_analyze_multiple_with_completions_api"} -> CompletionsResponses
      [] variant \in {"_analyze_with_responses_api",
                      "_analyze_multiple_with_responses_api"} -> ResponsesResponses
      [] OTHER -> GeminiResponses

ExtractAnswer(variant, response) ==
    CASE variant \in {"_analyze_with_completions_api",
                      "_analyze_multiple_with_completions_api"} -> CompletionsAnswer(response)
      [] variant = "_analyze_with_responses_api" -> ResponsesAnswer(response)
      [] variant = "_analyze_multiple_with_responses_api" -> MultiResponsesAnswer(response)
      [] OTHER -> GeminiAnswer(response)

\* A buffered adapter called from the orchestrator method kind: one blocking
\* request that raises or returns a response, then the extraction.
Buffered(kind, variant) ==
    /\ \/ \E e \in TransportErrors, r \in RaiseChoices :
             Fails(kind, e, FALSE, sink, FALSE, r)
       \/ \E response \in VendorResponses(variant), r \in RaiseChoices :
             LET a == ExtractAnswer(variant, response)
             IN  IF a.ok THEN Succeeds(a.value, sink)
                 ELSE Fails(kind, a.value, FALSE, sink, FALSE, r)
    /\ UNCHANGED <<answer_chunks, arrived, events, exhausted>>

(***************************************************************************)
(* Streaming adapters: one iteration of the `for ... in stream` loop.      *)
(* A step yields the accumulation list, the sink log and the exception     *)
(* raised in it, if any.                                                   *)
(***************************************************************************)
StepResult(chunks, log, exc) == [chunks |-> chunks, sink |-> log, exc |-> exc]

\* A call of the callback inside the loop; r: this invocation raises.
Forward(chunks, log, content, kind, r) ==
    IF CallbackSet
    THEN StepResult(chunks, Deliver(log, content, kind),
                    IF r THEN Some(SinkError) ELSE None)
    ELSE StepResult(chunks, log, None)

\* The Responses loop body inserting each answer chunk at the front of the
\* accumulation list instead of appending it.
ResponsesStep_Prepend(event, r) ==
    IF event.type = "response.reasoning_summary_text.delta"
    THEN IF event.delta # "" /\ config.streaming_show_reasoning
         THEN Forward(answer_chunks, sink, event.delta, "reasoning", r)
         ELSE StepResult(answer_chunks, sink, None)
    ELSE IF event.type = "response.web_search_call.searching"
    THEN Forward(answer_chunks, sink, "searching", "searching", r)
    ELSE IF event.type = "response.web_search_call.done"
    THEN Forward(answer_chunks, sink, "done", "searching", r)
    ELSE IF event.type = "response.output_text.delta"
    THEN IF event.delta # ""
         THEN Forward(<<event.delta>> \o answer_chunks, sink, event.delta, "answer", r)
         ELSE StepResult(answer_chunks, sink, None)
    ELSE StepResult(answer_chunks, sink, None)

\* _analyze_with_responses_api_streaming, body of `for event in stream`
\* The Responses loop body treating a search ping as answer text.
ResponsesStep_SearchAccumulated(event, r) ==
    IF event.type = "response.reasoning_summary_text.delta"
    THEN IF event.delta # "" /\ config.streaming_show_reasoning
         THEN Forward(answer_chunks, sink, event.delta, "reasoning", r)
         ELSE StepResult(answer_chunks, sink, None)
    ELSE IF event.type = "response.web_search_call.searching"
    THEN Forward(Append(answer_chunks, "searching"), sink, "searching", "searching", r)
    ELSE IF event.type = "response.web_search_call.done"
    THEN Forward(answer_chunks, sink, "done", "searching", r)
    ELSE IF event.type = "response.output_text.delta"
    THEN IF event.delta # ""
         THEN Forward(Append(answer_chunks, event.delta), sink, event.delta, "answer", r)
         ELSE StepResult(answer_chunks, sink, None)
    ELSE StepResult(answer_chunks, sink, None)

ResponsesStep(event, r) ==
    IF event.type = "response.reasoning_summary_text.delta"
    THEN IF event.delta # "" /\ config.streaming_show_reasoning
         THEN Forward(answer_chunks, sink, event.delta, "reasoning", r)
         ELSE StepResult(answer_chunks, sink, None)
    ELSE IF event.type = "response.web_search_call.searching"
    THEN Forward(answer_chunks, sink, "searching", "searching", r)
    ELSE IF event.type = "response.web_search_call.done"
    THEN Forward(answer_chunks, sink, "done", "searching", r)
    ELSE IF event.type = "response.output_text.delta"
    THEN IF event.delta # ""
         THEN Forward(Append(answer_chunks, event.delta), sink, event.delta, "answer", r)
         ELSE StepResult(answer_chunks, sink, None)
    ELSE StepResult(answer_chunks, sink, None)

\* The Completions loop body accumulating a chunk without handing it to the
\* callback.
CompletionsStep_NoForward(chunk, r) ==
    IF /\ chunk.choices # <<>>
       /\ chunk.choices[1].content # None
       /\ chunk.choices[1].content[1] # ""
    THEN StepResult(Append(answer_chunks, chunk.choices[1].content[1]), sink, None)
    ELSE StepResult(answer_chunks, sink, None)

\* _analyze_with_completions_api_streaming, body of `for chunk in stream`
CompletionsStep(chunk, r) ==
    IF /\ chunk.choices # <<>>
       /\ chunk.choices[1].content # None
       /\ chunk.choices[1].content[1] # ""
    THEN LET content == chunk.choices[1].content[1]
         IN  Forward(Append(answer_chunks, content), sink, content, "answer", r)
    ELSE StepResult(answer_chunks, sink, None)

\* `for part in candidate.content.parts` of the Gemini streaming adapters.
\* failAt: which invocation of the callback within this chunk raises
\* (0: none).
RECURSIVE GeminiPartsLoop(_, _, _, _)
GeminiPartsLoop(parts, chunks, log, failAt) ==
    IF parts = <<>> THEN StepResult(chunks, log, None)
    ELSE LET part == Head(parts)
             is_thought == part.thought
         IN  IF part.text # ""
             THEN LET s == Forward(Append(chunks, part.text), log, part.text,
                                   IF is_thought THEN "reasoning" ELSE "answer",
                                   failAt = 1)
                  IN  IF s.exc # None THEN s
                      ELSE GeminiPartsLoop(Tail(parts), s.chunks, s.sink, failAt - 1)
             ELSE GeminiPartsLoop(Tail(parts), chunks, log, failAt)

\* _analyze_with_gemini_streaming / _analyze_multiple_with_gemini_streaming,
\* body of `for chunk in stream`
GeminiStep(chunk, failAt) ==
    IF ~chunk.candidates \/ ~chunk.content THEN StepResult(answer_chunks, sink, None)
    ELSE IF chunk.parts = None THEN StepResult(answer_chunks, sink, Some(NoneIterError))
    ELSE GeminiPartsLoop(chunk.parts[1], answer_chunks, sink, failAt)

StreamEvents(variant) ==
    CASE variant = "_analyze_with_responses_api_streaming" -> ResponsesEvents
      [] variant = "_analyze_with_completions_api_streaming" -> CompletionsChunks
      [] OTHER -> GeminiChunks

\* Which invocation of the callback within one loop iteration raises.
FailChoices == IF streaming_callback = "callable" THEN 0..2 ELSE {0}

Step(variant, event, failAt) ==
    CASE variant = "_analyze_with_responses_api_streaming" -> ResponsesStep(event, failAt = 1)
      [] variant = "_analyze_with_completions_api_streaming" -> CompletionsStep(event, failAt = 1)
      [] OTHER -> GeminiStep(event, failAt)

\* The text fragments an event carries, as the vendor tags them.
RECURSIVE PartFragments(_)
PartFragments(parts) ==
    IF parts = <<>> THEN <<>>
    ELSE (IF Head(parts).text # ""
          THEN <<Fragment(Head(parts).text,
                          IF Head(parts).thought THEN "reasoning" ELSE "answer")>>
          ELSE <<>>) \o PartFragments(Tail(parts))

Carried(variant, event) ==
    CASE variant = "_analyze_with_responses_api_streaming" ->
            IF event.type = "response.web_search_call.searching"
            THEN <<Fragment("searching", "searching")>>
            ELSE IF event.type = "response.web_search_call.done"
            THEN <<Fragment("done", "searching")>>
            ELSE IF event.delta = "" THEN <<>>
            ELSE IF event.type = "response.output_text.delta"
                 THEN <<Fragment(event.delta, "answer")>>
                 ELSE <<Fragment(event.delta, "reasoning")>>
      [] variant = "_analyze_with_completions_api_streaming" ->
            IF /\ event.choices # <<>>
               /\ event.choices[1].content # None
               /\ event.choices[1].content[1] # ""
            THEN <<Fragment(event.choices[1].content[1], "answer")>>
            ELSE <<>>
      [] OTHER ->
            IF event.candidates /\ event.content /\ event.parts # None
            THEN PartFragments(event.parts[1])
            ELSE <<>>

EmptyError(variant) ==
    IF variant \in GeminiStreamingVariants THEN EmptyGeminiStreamError
    ELSE EmptyStreamError

(***************************************************************************)
(* Actions.                                                                *)
(***************************************************************************)
\* A streaming adapter up to the creation of the stream: the request raises
\* or the stream is open.
OpenStream(kind) ==
    /\ \/ \E e \in TransportErrors, r1 \in RaiseChoices, r2 \in RaiseChoices :
             Fails(kind, e, TRUE, sink, r1, r2)
       \/ /\ pc' = "streaming"
          /\ UNCHANGED <<sink, origin, caught, outcome, result, raised>>
    /\ UNCHANGED <<answer_chunks, arrived, events, exhausted>>

analyze_exam_screenshot ==
    /\ pc = "idle"
    /\ callKind' = "single"
    /\ invoked' = {SingleRoute}
    /\ IF SingleRoute \in StreamingVariants
       THEN OpenStream("single")
       ELSE Buffered("single", SingleRoute)
    /\ requests' = Issue(requests, SingleRoute)
    /\ UNCHANGED <<configVars, retryVars, queueVars, restVars>>
    /\ ChunkPosting

analyze_multi_screenshots ==
    /\ pc = "idle"
    /\ callKind' = "multi"
    /\ \E image_count \in 0..MaxImages :
          IF image_count = 0
          THEN \* `if not screenshots:` returns a dict without a model key
               /\ invoked' = {}
               /\ pc' = "done"
               /\ outcome' = "returned"
               /\ result' = [success |-> FALSE, answer |-> None, model |-> None,
                             error |-> Some("No screenshots provided")]
               /\ UNCHANGED <<answer_chunks, sink, arrived, events, exhausted,
                              origin, caught, raised, requests>>
          ELSE /\ invoked' = {MultiRoute}
               /\ IF MultiRoute \in StreamingVariants
                  THEN OpenStream("multi")
                  ELSE Buffered("multi", MultiRoute)
               /\ requests' = Issue(requests, MultiRoute)
    /\ UNCHANGED <<configVars, retryVars, queueVars, restVars>>
    /\ ChunkPosting

\* The stream yields one more event and the loop body runs on it.
StreamNext ==
    /\ pc = "streaming"
    /\ events < MaxEvents
    /\ \E variant \in invoked :
       \E event \in StreamEvents(variant), failAt \in FailChoices,
          r1 \in RaiseChoices, r2 \in RaiseChoices :
          LET s == Step(variant, event, failAt)
          IN  /\ events' = events + 1
              /\ arrived' = arrived \o Carried(variant, event)
              /\ answer_chunks' = s.chunks
              /\ IF s.exc = None
                 THEN /\ sink' = s.sink
                      /\ UNCHANGED <<pc, origin, caught, outcome, result, raised>>
                 ELSE Fails(callKind, s.exc[1], TRUE, s.sink, r1, r2)
    /\ UNCHANGED <<configVars, callKind, invoked, exhausted, requests,
                   retryVars, queueVars, restVars>>
    /\ ChunkPosting

\* The transport raises while the stream is iterated.
StreamRaises ==
    /\ pc = "streaming"
    /\ \E e \in TransportErrors, r1 \in RaiseChoices, r2 \in RaiseChoices :
          Fails(callKind, e, TRUE, sink, r1, r2)
    /\ UNCHANGED <<configVars, callKind, invoked, answer_chunks, arrived, events,
                   exhausted, requests, retryVars, queueVars, restVars>>
    /\ ChunkPosting

\* The stream ends: join, strip, the emptiness check and the result.
StreamExhausted ==
    /\ pc = "streaming"
    /\ exhausted' = TRUE
    /\ \E variant \in invoked, r1 \in RaiseChoices, r2 \in RaiseChoices :
          LET final_answer == strip(join(answer_chunks))
          IN  IF final_answer = ""
              THEN Fails(callKind, EmptyError(variant), TRUE, sink, r1, r2)
              ELSE Succeeds(IF variant \in GeminiStreamingVariants
                            THEN GeminiFallback(final_answer)
                            ELSE final_answer, sink)
    /\ UNCHANGED <<configVars, callKind, invoked, answer_chunks, arrived, events,
                   requests, retryVars, queueVars, restVars>>
    /\ ChunkPosting

Next ==
    \/ analyze_exam_screenshot
    \/ analyze_multi_screenshots
    \/ StreamNext
    \/ StreamRaises
    \/ StreamExhausted

Spec == Init /\ [][Next]_vars

\* The sinks the application wires (ExamsGPT.__init__): the callback is
\* OutputHandler.get_streaming_callback(), which is send_streaming_chunk when
\* the strategy is StreamingWebhookOutput (webhook mode with streaming
\* enabled) and None otherwise.
AppInit ==
    /\ Init
    /\ \E app_mode \in {"dev", "socketio", "webhook"} :
          streaming_callback =
              IF app_mode = "webhook" /\ config.streaming_enabled
              THEN "send_streaming_chunk"
              ELSE "None"

AppSpec == AppInit /\ [][Next]_vars

(***************************************************************************)
(* retry_on_transient_error, AIService.test_connection and ExamsGPT.start. *)
(***************************************************************************)
MAX_RETRIES == 3
RETRY_DELAY == 2

transient_keywords_WithResponse ==
    {"connection", "timeout", "network", "temporary", "unavailable",
     "rate limit", "429", "503", "502", "500", "connection reset",
     "broken pipe", "timed out", "response"}

transient_keywords ==
    {"connection", "timeout", "network", "temporary", "unavailable",
     "rate limit", "429", "503", "502", "500", "connection reset",
     "broken pipe", "timed out"}

\* `keyword in error_msg`
Contains(s, sub) ==
    \E i \in 1..(Len(s) - Len(sub) + 1) : SubSeq(s, i, i + Len(sub) - 1) = sub

\* The classifier without the lower() call.
is_transient_CaseSensitive(e) == \E keyword \in transient_keywords : Contains(e, keyword)

\* error_msg = str(e).lower(); any(keyword in error_msg for keyword in ...)
is_transient(e) == \E keyword \in transient_keywords : Contains(lower(e), keyword)

\* The loop with one iteration too many.
AttemptsLeft_OneMore(n) == n <= MAX_RETRIES

\* `for attempt in range(MAX_RETRIES)`: there is an iteration number n
AttemptsLeft(n) == n < MAX_RETRIES

\* A wrapper that also sleeps after the final attempt.
SleepsAfter_Always(n) == TRUE

\* `if attempt < MAX_RETRIES - 1:`
SleepsAfter(n) == n < MAX_RETRIES - 1

\* delay = RETRY_DELAY * (2 ** attempt)
BackoffDelay(n) == RETRY_DELAY * (2 ^ n)

\* The exceptions by which the adapters signal a response without content.
MissingContentErrors ==
    {ExtractError, NoMessageError, EmptyStreamError, EmptyGeminiStreamError,
     EmptyGeminiError}

\* The messages of the exceptions a wrapped function raises.
FuncErrors ==
    {"Request timed out.", "Connection error.", "TIMEOUT", "Error code: 429",
     "Incorrect API key provided", "invalid api key"} \cup MissingContentErrors

\* test_connection's branch: the endpoint of its minimal request.
TestEndpoint ==
    IF _uses_gemini THEN "models.generate_content"
    ELSE IF _uses_responses_api THEN "responses.create"
    ELSE "chat.completions.create"

\* A connection test that lets the exception of the request escape.
test_connection_Reraise(vendor) == IF vendor.ok THEN Ok(TRUE) ELSE Err(vendor.value)

\* test_connection: `return True` after the request, `return False` in the
\* except block.  vendor is the outcome of the request.
test_connection(vendor) == IF vendor.ok THEN Ok(TRUE) ELSE Ok(FALSE)

\* The outcomes of the vendor request of the connection test.
TestVendorOutcomes == {Ok("response")} \cup {Err(e) : e \in TransportErrors}

\* The outcomes of one call of the wrapped function.
FuncOutcomes ==
    IF func = "test_connection"
    THEN {[call |-> test_connection(vendor), vendor |-> Some(vendor)] :
             vendor \in TestVendorOutcomes}
    ELSE {[call |-> c, vendor |-> None] :
             c \in {Ok("value")} \cup {Err(e) : e \in FuncErrors}}

RetryEnds(kind, value) ==
    /\ retry_pc' = "done"
    /\ retry_result' = [kind |-> kind, value |-> Some(value)]

\* retry_on_transient_error(func) is entered with a function that may raise.
retry_on_transient_error ==
    /\ retry_pc = "idle"
    /\ startup = ""
    /\ func' = "callable"
    /\ retry_pc' = "looping"
    /\ UNCHANGED <<serviceVars, attempt, calls, attempt_errors, sleeps,
                   last_exception, retry_result, startup, test_errors, queueVars, restVars>>

\* ExamsGPT.start up to the call retry_on_transient_error(test_connection).
start ==
    /\ retry_pc = "idle"
    /\ startup = ""
    /\ func' = "test_connection"
    /\ startup' = "testing"
    /\ retry_pc' = "looping"
    /\ UNCHANGED <<serviceVars, attempt, calls, attempt_errors, sleeps,
                   last_exception, retry_result, test_errors, queueVars, restVars>>

\* One iteration of the wrapper's loop: the call, the classification of the
\* exception, the sleep; after the last iteration `raise last_exception`.
RetryAttempt ==
    /\ retry_pc = "looping"
    /\ AttemptsLeft(attempt)
    /\ calls' = calls + 1
    /\ \E o \in FuncOutcomes :
          /\ clients' = IF o.vendor # None /\ _uses_gemini
                        THEN clients \cup {"genai.Client"}
                        ELSE clients
          /\ IF o.vendor = None
             THEN UNCHANGED <<requests, test_errors>>
             ELSE /\ requests' = Append(requests, TestEndpoint)
                  /\ test_errors' = Append(test_errors,
                                           IF o.vendor[1].ok THEN None
                                           ELSE Some(o.vendor[1].value))
          /\ IF o.call.ok
             THEN /\ RetryEnds("returned", o.call.value)
                  /\ UNCHANGED <<attempt, attempt_errors, sleeps, last_exception>>
             ELSE LET e == o.call.value
                  IN  /\ last_exception' = Some(e)
                      /\ attempt_errors' = Append(attempt_errors, e)
                      /\ IF ~is_transient(e)
                         THEN /\ RetryEnds("raised", e)
                              /\ UNCHANGED <<attempt, sleeps>>
                         ELSE /\ sleeps' = IF SleepsAfter(attempt)
                                           THEN Append(sleeps, BackoffDelay(attempt))
                                           ELSE sleeps
                              /\ attempt' = attempt + 1
                              /\ IF AttemptsLeft(attempt + 1)
                                 THEN UNCHANGED <<retry_pc, retry_result>>
                                 ELSE RetryEnds("raised", e)
    /\ UNCHANGED <<config, streaming_callback, pc, callKind, invoked,
                   answer_chunks, sink, chunk_posts, arrived, events, exhausted,
                   origin, caught, outcome, result, raised, func, startup, queueVars,
                   settings, main_pc, init_attempt, init_errors, init_sleeps,
                   fatal, triggerVars, threads, webhookVars,
                   sessionVars>>

\* ExamsGPT.start after the wrapper: the return value is not looked at, an
\* exception ends the process with sys.exit(1).
StartAfterTest ==
    /\ startup = "testing"
    /\ retry_pc = "done"
    /\ startup' = IF retry_result.kind = "returned" THEN "running" ELSE "exited"
    /\ UNCHANGED <<serviceVars, func, retry_pc, attempt, calls, attempt_errors,
                   sleeps, last_exception, retry_result, test_errors, queueVars, restVars>>

RetryNext ==
    \/ retry_on_transient_error
    \/ start
    \/ RetryAttempt
    \/ StartAfterTest

\* The wrapper does not depend on the streaming settings: they are fixed.
RetryInit ==
    /\ Init
    /\ streaming_callback = "None"
    /\ ~config.streaming_enabled
    /\ ~config.streaming_show_reasoning

RetrySpec == RetryInit /\ [][RetryNext]_vars

\* The loop runs in the calling thread: an iteration that can run does run.
RetryLiveSpec == RetrySpec /\ WF_vars(RetryAttempt)

(***************************************************************************)
(* main(): the .env check, the construction of ExamsGPT (configuration,    *)
(* AI service, capture manager) inside the initialization loop, start().   *)
(***************************************************************************)
max_init_retries == 3
init_delay == 2

\* ai.provider as written in config.yaml.
ConfiguredProviders == {"openai", "Gemini", "azure"}

\* screenshot.format as written in config.yaml.
ConfiguredFormats == {"png", "jpeg", "webp", "bmp"}

\* What the process finds at start: the .env file, the two credentials
\* (TRUE: set and not empty), the provider and the image format.
Settings ==
    [env_file : BOOLEAN, provider : ConfiguredProviders,
     openai_api_key : BOOLEAN, gemini_api_key : BOOLEAN,
     screenshot_format : ConfiguredFormats]

InvalidProviderError(p) ==
    "Invalid AI provider '" \o p \o "'. Must be 'openai' or 'gemini'"
OpenAIKeyMissing ==
    "OPENAI_API_KEY not found in .env file (required for openai provider)"
GeminiKeyMissing ==
    "GEMINI_API_KEY not found in .env file (required for gemini provider)"
EnvFileMissing == ".env file not found!"

\* A configuration that does not look at the credentials.
ConfigError_NoCredentialCheck(s) ==
    IF lower(s.provider) \notin Providers
    THEN Some(InvalidProviderError(lower(s.provider)))
    ELSE None

\* Config.__init__: the ValueError it raises, None when it raises none.
ConfigError(s) ==
    LET ai_provider == lower(s.provider)
    IN  IF ai_provider \notin Providers
        THEN Some(InvalidProviderError(ai_provider))
        ELSE IF ai_provider = "openai" /\ ~s.openai_api_key
        THEN Some(OpenAIKeyMissing)
        ELSE IF ai_provider = "gemini" /\ ~s.gemini_api_key
        THEN Some(GeminiKeyMissing)
        ELSE None

\* _image_to_base64 / image_to_bytes: the format the image is saved in.
save_format(screenshot_format) ==
    IF screenshot_format = "jpeg" THEN "JPEG"
    ELSE IF screenshot_format = "webp" THEN "WEBP"
    ELSE "PNG"

\* Exceptions the construction of the capture manager (screen grabber,
\* input listeners) may raise on the host.
ComponentErrors == {"Connection refused", "Permission denied"}

init_transient_keywords ==
    {"connection", "timeout", "network", "temporary", "unavailable",
     "already in use", "address already in use"}

\* A classifier that takes every error for a transient one.
is_transient_init_Always(e) == TRUE

\* main: is_transient = any(keyword in str(e).lower() ...)
is_transient_init(e) ==
    \E keyword \in init_transient_keywords : Contains(lower(e), keyword)

\* The n-th sleep of main's loop: init_delay, doubled after every sleep.
InitDelay(n) == IF n = 0 THEN init_delay ELSE init_delay * (2 ^ n)

\* main up to the initialization loop.
main ==
    /\ main_pc = "idle"
    /\ \E s \in Settings :
          /\ ConfigError(s) = None => config.ai_provider = lower(s.provider)
          /\ settings' = Some(s)
          /\ IF s.env_file
             THEN /\ main_pc' = "loop"
                  /\ fatal' = fatal
             ELSE /\ main_pc' = "exited"
                  /\ fatal' = Some(EnvFileMissing)
    /\ UNCHANGED <<serviceVars, retryVars, queueVars, init_attempt, init_errors,
                   init_sleeps, clients, triggerVars, threads, webhookVars,
                   sessionVars>>

\* One iteration of main's loop up to `app = ExamsGPT()` and, when the
\* constructor raises, the except clause of the loop.
ExamsGPT_init ==
    /\ main_pc = "loop"
    /\ \E component \in {None} \cup {Some(e) : e \in ComponentErrors} :
          LET config_error == ConfigError(settings[1])
              e == IF config_error # None THEN config_error ELSE component
          IN  /\ clients' = IF config_error = None /\ ~_uses_gemini
                            THEN clients \cup {"OpenAI"}
                            ELSE clients
              /\ IF e = None
                 THEN /\ main_pc' = "constructed"
                      /\ UNCHANGED <<init_attempt, init_errors, init_sleeps, fatal>>
                 ELSE /\ init_errors' = Append(init_errors, e[1])
                      /\ IF /\ is_transient_init(e[1])
                            /\ init_attempt < max_init_retries - 1
                         THEN /\ init_sleeps' = Append(init_sleeps, InitDelay(init_attempt))
                              /\ init_attempt' = init_attempt + 1
                              /\ UNCHANGED <<main_pc, fatal>>
                         ELSE /\ fatal' = e
                              /\ main_pc' = "exited"
                              /\ UNCHANGED <<init_attempt, init_sleeps>>
    /\ UNCHANGED <<serviceVars, retryVars, queueVars, settings, triggerVars,
                   threads, webhookVars,
                   sessionVars>>

\* app.start() of the constructed application.
app_start ==
    /\ main_pc = "constructed"
    /\ start

StartupNext ==
    \/ main
    \/ ExamsGPT_init
    \/ app_start
    \/ RetryAttempt
    \/ StartAfterTest

StartupInit == RetryInit

StartupSpec == StartupInit /\ [][StartupNext]_vars

(***************************************************************************)
(* ScreenshotQueue and the queue handlers of ExamsGPT.  A screenshot is    *)
(* the pair of its image (numbered in capture order) and its optional      *)
(* path.                                                                   *)
(***************************************************************************)
Paths == {None, Some("screenshots/shot.png")}

\* A get_all that copies the list and forgets to clear it.
get_all_NoClear(q) == [items |-> q, queue |-> q]

\* ScreenshotQueue.get_all: items = self.queue.copy(); self.queue.clear()
get_all(q) == [items |-> q, queue |-> <<>>]

\* ScreenshotQueue.add: append, the new size is returned
add(q, image, path) == [size |-> Len(q) + 1, queue |-> Append(q, <<image, path>>)]

\* The images (capture numbers) of a list of screenshots.
Images(items) == [i \in 1..Len(items) |-> items[i][1]]

\* A send handler without its early return.
QueueIsEmpty_Never(screenshots) == FALSE

\* `if not screenshots:` of handle_queue_send
QueueIsEmpty(screenshots) == screenshots = <<>>

\* OutputHandler.send_queue_status(size): a status notification to the
\* frontend that returns normally.
send_queue_status(log, size) == Append(log, size)

\* ExamsGPT.handle_queue_add
handle_queue_add ==
    /\ captured < MaxCaptures
    /\ \E path \in Paths :
          LET a == add(queue, captured + 1, path)
          IN  /\ queue' = a.queue
              /\ queue_status' = send_queue_status(queue_status, a.size)
    /\ captured' = captured + 1
    /\ last_op' = "add"
    /\ UNCHANGED <<serviceVars, retryVars, restVars, drained, dropped, analysed, send_log>>

\* ScreenshotQueue.clear
clear ==
    /\ dropped' = dropped \o queue
    /\ queue' = <<>>
    /\ last_op' = "clear"
    /\ UNCHANGED <<serviceVars, retryVars, restVars, captured, drained, analysed,
                   queue_status, send_log>>

\* ScreenshotQueue.get_all called on its own
QueueGetAll ==
    /\ Len(drained) < MaxDrains
    /\ LET g == get_all(queue)
       IN  /\ drained' = Append(drained, g.items)
           /\ queue' = g.queue
    /\ last_op' = "get_all"
    /\ UNCHANGED <<serviceVars, retryVars, restVars, captured, dropped, analysed,
                   queue_status, send_log>>

\* ExamsGPT.handle_queue_send: the drain, the early return on an empty list,
\* else the status reset and the call analyze_multi_screenshots(screenshots)
\* (the call itself is the action analyze_multi_screenshots).
handle_queue_send ==
    /\ Len(drained) < MaxDrains
    /\ LET g == get_all(queue)
           screenshots == g.items
       IN  /\ drained' = Append(drained, screenshots)
           /\ queue' = g.queue
           /\ queue_status' = send_queue_status(queue_status, 0)
           /\ IF QueueIsEmpty(screenshots)
              THEN /\ send_log' = Append(send_log, "empty")
                   /\ UNCHANGED analysed
              ELSE /\ send_log' = Append(send_log, "analysed")
                   /\ analysed' = Append(analysed, screenshots)
    /\ last_op' = "send"
    /\ UNCHANGED <<serviceVars, retryVars, restVars, captured, dropped>>

QueueNext ==
    \/ handle_queue_add
    \/ clear
    \/ QueueGetAll
    \/ handle_queue_send

\* The queue does not read the configuration: it is fixed to the defaults
\* of Config and the console output (no streaming callback).
QueueInit ==
    /\ Init
    /\ streaming_callback = "None"
    /\ config = [ai_provider |-> "openai", openai_model |-> "gpt-5.2",
                 streaming_enabled |-> FALSE, streaming_show_reasoning |-> TRUE]

QueueSpec == QueueInit /\ [][QueueNext]_vars

(***************************************************************************)
(* Two calls of _analyze_with_responses_api_streaming overlapping, one in  *)
(* each listener thread.  answer_content is a local of the method: every   *)
(* call has its own list; the callback (the sink) is shared.               *)
(***************************************************************************)
\* One list owned by the service object and used by every call.
BufferOf_Shared(t) == "keyboard"

\* The call whose answer_content list the call running in thread t uses.
BufferOf(t) == t

\* The loop body run on one event by the call of thread t, given the lists
\* of all calls and the sink log.
ThreadStep(locals, log, t, event) ==
    LET b == BufferOf(t)
        seen == [locals EXCEPT ![t].events = @ + 1]
    IN  IF event.type = "response.reasoning_summary_text.delta"
        THEN [locals |-> seen,
              sink |-> IF event.delta # "" /\ config.streaming_show_reasoning /\ CallbackSet
                       THEN Deliver(log, event.delta, "reasoning") ELSE log]
        ELSE IF event.type = "response.web_search_call.searching"
        THEN [locals |-> seen,
              sink |-> IF CallbackSet THEN Deliver(log, "searching", "searching") ELSE log]
        ELSE IF event.type = "response.web_search_call.done"
        THEN [locals |-> seen,
              sink |-> IF CallbackSet THEN Deliver(log, "done", "searching") ELSE log]
        ELSE IF event.type = "response.output_text.delta" /\ event.delta # ""
        THEN [locals |-> [seen EXCEPT ![t].stream = Append(@, event.delta),
                                      ![b].answer_content = Append(@, event.delta)],
              sink |-> IF CallbackSet THEN Deliver(log, event.delta, "answer") ELSE log]
        ELSE [locals |-> seen, sink |-> log]

\* Events the two overlapping streams carry.
OverlapEvents ==
    {e \in ResponsesEvents :
        \/ e.type = "response.output_text.delta" /\ e.delta \in {"", "a", "{a}"}
        \/ e.type = "response.created"}

\* A trigger in listener thread t reaches the streaming adapter:
\* `answer_content = []` and the stream is opened.
ThreadCalls(t) ==
    /\ threads[t].pc = "idle"
    /\ SingleRoute = "_analyze_with_responses_api_streaming"
    /\ threads' = [threads EXCEPT ![t].pc = "streaming",
                                  ![BufferOf(t)].answer_content = <<>>]
    /\ UNCHANGED <<serviceVars, retryVars, queueVars, mainVars, triggerVars,
                   webhookVars,
                   sessionVars>>

\* The stream of the call in thread t yields an event.
ThreadReceives(t) ==
    /\ threads[t].pc = "streaming"
    /\ threads[t].events < MaxEvents
    /\ \E event \in OverlapEvents :
          LET s == ThreadStep(threads, sink, t, event)
          IN  /\ threads' = s.locals
              /\ sink' = s.sink
    /\ UNCHANGED <<config, streaming_callback, pc, callKind, invoked,
                   answer_chunks, arrived, events, exhausted, origin, caught,
                   outcome, result, raised, requests, retryVars, queueVars,
                   mainVars, triggerVars, webhookVars,
                   sessionVars>>
    /\ ChunkPosting

\* The stream of the call in thread t ends: join, strip, emptiness check.
ThreadEnds(t) ==
    /\ threads[t].pc = "streaming"
    /\ LET final_answer == strip(join(threads[BufferOf(t)].answer_content))
       IN  IF final_answer = ""
           THEN /\ threads' = [threads EXCEPT ![t].pc = "failed"]
                /\ sink' = IF CallbackSet
                           THEN Deliver(Deliver(sink, EmptyStreamError, "error"),
                                        EmptyStreamError, "error")
                           ELSE sink
           ELSE /\ threads' = [threads EXCEPT ![t].pc = "done",
                                              ![t].answer = Some(final_answer)]
                /\ sink' = sink
    /\ UNCHANGED <<config, streaming_callback, pc, callKind, invoked,
                   answer_chunks, arrived, events, exhausted, origin, caught,
                   outcome, result, raised, requests, retryVars, queueVars,
                   mainVars, triggerVars, webhookVars,
                   sessionVars>>
    /\ ChunkPosting

OverlapNext ==
    \E t \in Listeners :
        \/ ThreadCalls(t)
        \/ ThreadReceives(t)
        \/ ThreadEnds(t)

\* The application with streaming to the webhook and a GPT-5 model.
OverlapInit ==
    /\ Init
    /\ streaming_callback = "send_streaming_chunk"
    /\ config = [ai_provider |-> "openai", openai_model |-> "gpt-5.2",
                 streaming_enabled |-> TRUE, streaming_show_reasoning |-> TRUE]

OverlapSpec == OverlapInit /\ [][OverlapNext]_vars

(***************************************************************************)
(* CaptureManager: the handlers of the trigger key or button, the queue    *)
(* key and the send key, with the callbacks of ExamsGPT they call.  An     *)
(* image is named by the number of the grab that produced it.              *)
(***************************************************************************)
MaxTriggers == 4

\* Exceptions of sct.grab / Image.frombytes / _save_screenshot.
CaptureErrors == {"XGetImage() failed"}

\* What the screen grabber does on one call.
GrabOutcomes == {Ok("raster")} \cup {Err(e) : e \in CaptureErrors}

\* A capture that logs the exception and returns an image all the same.
capture_fullscreen_Swallow(grab, image, path) == Ok(<<image, path>>)

\* ScreenCapture.capture_fullscreen: (img, saved_path), or the exception
\* logged and raised again.
capture_fullscreen(grab, image, path) ==
    IF grab.ok THEN Ok(<<image, path>>) ELSE Err(grab.value)

\* One call the callbacks of ExamsGPT make on the output handler or the AI
\* service.
CycleStep(cycle, op, images, success) ==
    [cycle |-> cycle, op |-> op, images |-> images, success |-> success]

\* A handler that delivers only the results of successful analyses.
handle_screenshot_SkipFailure(image, success) ==
    <<CycleStep("single", "send_processing", <<image>>, TRUE),
      CycleStep("single", "analyze_exam_screenshot", <<image>>, success)>>
    \o (IF success THEN <<CycleStep("single", "handle_result", <<image>>, success)>>
        ELSE <<>>)

\* ExamsGPT.handle_screenshot: the calls it makes, in order; success is the
\* `success` entry of the dict analyze_exam_screenshot returns.
handle_screenshot(image, success) ==
    <<CycleStep("single", "send_processing", <<image>>, TRUE),
      CycleStep("single", "analyze_exam_screenshot", <<image>>, success),
      CycleStep("single", "handle_result", <<image>>, success)>>

\* ExamsGPT.handle_queue_send after the status reset, the queue not empty.
SendSteps(screenshots, success) ==
    <<CycleStep("multi", "send_processing", Images(screenshots), TRUE),
      CycleStep("multi", "analyze_multi_screenshots", Images(screenshots), success),
      CycleStep("multi", "handle_result", Images(screenshots), success)>>

\* CaptureManager._handle_trigger with ExamsGPT.handle_screenshot
_handle_trigger ==
    /\ Len(trigger_log) < MaxTriggers
    /\ \E grab \in GrabOutcomes, path \in Paths, success \in BOOLEAN :
          LET shot == capture_fullscreen(grab, grabs + 1, path)
          IN  /\ trigger_log' = Append(trigger_log,
                    [key |-> "trigger", grabbed |-> grab.ok, image |-> grabs + 1])
              /\ IF shot.ok
                 THEN /\ single_analysed' = Append(single_analysed, shot.value[1])
                      /\ cycle_log' = cycle_log \o handle_screenshot(shot.value[1], success)
                      /\ handled' =
                            handled \o
                            [i \in 1..Len(SelectSeq(handle_screenshot(shot.value[1], success),
                                                   LAMBDA c : c.op = "handle_result")) |->
                                [images |-> <<shot.value[1]>>, path |-> shot.value[2],
                                 success |-> success]]
                 ELSE UNCHANGED <<single_analysed, handled, cycle_log>>
    /\ grabs' = grabs + 1
    /\ UNCHANGED <<serviceVars, retryVars, queueVars, mainVars, threads,
                   webhookVars,
                   sessionVars>>

\* CaptureManager._handle_queue_add with ExamsGPT.handle_queue_add
_handle_queue_add ==
    /\ Len(trigger_log) < MaxTriggers
    /\ \E grab \in GrabOutcomes, path \in Paths :
          LET shot == capture_fullscreen(grab, grabs + 1, path)
          IN  /\ trigger_log' = Append(trigger_log,
                    [key |-> "queue", grabbed |-> grab.ok, image |-> grabs + 1])
              /\ IF shot.ok
                 THEN LET a == add(queue, shot.value[1], shot.value[2])
                      IN  /\ queue' = a.queue
                          /\ queue_status' = send_queue_status(queue_status, a.size)
                          /\ captured' = captured + 1
                          /\ last_op' = "add"
                 ELSE UNCHANGED <<queue, queue_status, captured, last_op>>
    /\ grabs' = grabs + 1
    /\ UNCHANGED <<serviceVars, retryVars, drained, dropped, analysed, send_log,
                   mainVars, single_analysed, handled, cycle_log, threads,
                   webhookVars,
                   sessionVars>>

\* CaptureManager._handle_queue_send with ExamsGPT.handle_queue_send
_handle_queue_send ==
    /\ Len(trigger_log) < MaxTriggers
    /\ trigger_log' = Append(trigger_log,
            [key |-> "send", grabbed |-> FALSE, image |-> 0])
    /\ \E success \in BOOLEAN :
          LET g == get_all(queue)
              screenshots == g.items
          IN  /\ drained' = Append(drained, screenshots)
              /\ queue' = g.queue
              /\ queue_status' = send_queue_status(queue_status, 0)
              /\ IF QueueIsEmpty(screenshots)
                 THEN /\ send_log' = Append(send_log, "empty")
                      /\ UNCHANGED <<analysed, handled, cycle_log>>
                 ELSE /\ send_log' = Append(send_log, "analysed")
                      /\ analysed' = Append(analysed, screenshots)
                      /\ cycle_log' = cycle_log \o SendSteps(screenshots, success)
                      /\ handled' = Append(handled,
                            [images |-> Images(screenshots),
                             path |-> screenshots[1][2], success |-> success])
    /\ last_op' = "send"
    /\ UNCHANGED <<serviceVars, retryVars, captured, dropped, mainVars, grabs,
                   single_analysed, threads, webhookVars,
                   sessionVars>>

TriggerNext ==
    \/ _handle_trigger
    \/ _handle_queue_add
    \/ _handle_queue_send

TriggerInit == QueueInit

TriggerSpec == TriggerInit /\ [][TriggerNext]_vars

(***************************************************************************)
(* WebhookOutput._send_with_retry.  Delays are in milliseconds.            *)
(***************************************************************************)
WebhookOutput_MAX_RETRIES == 3
INITIAL_BACKOFF == 500

\* What one requests.post does: a response with a status code, or an
\* exception.
PostOutcomes ==
    {Response(200), Response(500), Response(404)}
    \cup {PostRaises(e) : e \in {"Timeout", "ConnectionError", "Exception"}}

\* The except clauses of the loop body: Timeout, ConnectionError, Exception.
PostExceptionCaught(e) == e \in {"Timeout", "ConnectionError", "Exception"}

\* A loop with one attempt too many.
PostAttemptsLeft_OneMore(n) == n <= WebhookOutput_MAX_RETRIES + 1

\* `for attempt in range(1, self.MAX_RETRIES + 1)`: there is an attempt n
PostAttemptsLeft(n) == n <= WebhookOutput_MAX_RETRIES

\* `if attempt < self.MAX_RETRIES:` before the sleep
WaitsAfter(n) == n < WebhookOutput_MAX_RETRIES

\* backoff at attempt n: INITIAL_BACKOFF, doubled after every sleep
Backoff(n) == INITIAL_BACKOFF * (2 ^ (n - 1))

\* Entry of _send_with_retry: backoff = INITIAL_BACKOFF, the loop begins.
_send_with_retry ==
    /\ send_pc = "idle"
    /\ send_pc' = "sending"
    /\ UNCHANGED <<serviceVars, retryVars, queueVars, mainVars, triggerVars,
                   threads, posts, waits, send_result, sessionVars>>

\* One iteration of the loop: the POST, `return True` on status 200, the
\* sleep before the next attempt, `return False` after the last one.
PostAttempt ==
    /\ send_pc = "sending"
    /\ PostAttemptsLeft(Len(posts) + 1)
    /\ \E o \in PostOutcomes :
          LET n == Len(posts) + 1
          IN  /\ posts' = Append(posts, o)
              /\ IF o.status_code = 200
                 THEN /\ send_result' = Some(TRUE)
                      /\ send_pc' = "returned"
                      /\ waits' = waits
                 ELSE IF o.exception # "" /\ ~PostExceptionCaught(o.exception)
                 THEN /\ send_pc' = "raised"
                      /\ UNCHANGED <<send_result, waits>>
                 ELSE /\ waits' = IF WaitsAfter(n) THEN Append(waits, Backoff(n))
                                  ELSE waits
                      /\ IF PostAttemptsLeft(n + 1)
                         THEN UNCHANGED <<send_pc, send_result>>
                         ELSE /\ send_result' = Some(FALSE)
                              /\ send_pc' = "returned"
    /\ UNCHANGED <<serviceVars, retryVars, queueVars, mainVars, triggerVars,
                   threads, sessionVars>>

WebhookNext ==
    \/ _send_with_retry
    \/ PostAttempt

WebhookInit == QueueInit

WebhookSpec == WebhookInit /\ [][WebhookNext]_vars

(***************************************************************************)
(* Key presses and the keyboard listener thread.  The queue key and the    *)
(* send key are handled by the one keyboard.Listener of CaptureManager: a  *)
(* press waits until the handler of the previous press has returned.  The  *)
(* two statements of ScreenshotQueue.get_all are separate steps.           *)
(***************************************************************************)
MaxPresses == 4

\* Handlers running in threads of their own, whatever the listener does.
ListenerFree_Always(position) == TRUE

\* The listener thread takes the next press when its handler has returned.
ListenerFree(position) == position = "idle"

\* The user presses the queue key or the send key.
KeyPressed ==
    /\ pressed < MaxPresses
    /\ \E key \in {"queue_key", "send_key"} : pending' = Append(pending, key)
    /\ pressed' = pressed + 1
    /\ UNCHANGED <<serviceVars, retryVars, queueVars, mainVars, triggerVars,
                   threads, webhookVars, kb_pc, kb_items, afterKeyboard>>

\* _handle_queue_add with handle_queue_add for the oldest press.
KeyboardAdd ==
    /\ pending # <<>>
    /\ Head(pending) = "queue_key"
    /\ ListenerFree(kb_pc)
    /\ pending' = Tail(pending)
    /\ \E path \in Paths :
          LET a == add(queue, captured + 1, path)
          IN  /\ queue' = a.queue
              /\ queue_status' = send_queue_status(queue_status, a.size)
    /\ captured' = captured + 1
    /\ last_op' = "add"
    /\ UNCHANGED <<serviceVars, retryVars, drained, dropped, analysed, send_log,
                   mainVars, triggerVars, threads, webhookVars, kb_pc, kb_items,
                   pressed, afterKeyboard>>

\* _handle_queue_send, handle_queue_send up to `items = self.queue.copy()`.
KeyboardSendCopy ==
    /\ pending # <<>>
    /\ Head(pending) = "send_key"
    /\ kb_pc = "idle"
    /\ pending' = Tail(pending)
    /\ kb_items' = get_all(queue).items
    /\ kb_pc' = "copied"
    /\ UNCHANGED <<serviceVars, retryVars, queueVars, mainVars, triggerVars,
                   threads, webhookVars, pressed, afterKeyboard>>

\* `self.queue.clear(); return items` and the rest of handle_queue_send.
KeyboardSendClear ==
    /\ kb_pc = "copied"
    /\ queue' = get_all(queue).queue
    /\ drained' = Append(drained, kb_items)
    /\ queue_status' = send_queue_status(queue_status, 0)
    /\ IF QueueIsEmpty(kb_items)
       THEN /\ send_log' = Append(send_log, "empty")
            /\ UNCHANGED analysed
       ELSE /\ send_log' = Append(send_log, "analysed")
            /\ analysed' = Append(analysed, kb_items)
    /\ last_op' = "send"
    /\ kb_items' = <<>>
    /\ kb_pc' = "idle"
    /\ UNCHANGED <<serviceVars, retryVars, captured, dropped, mainVars,
                   triggerVars, threads, webhookVars, pending, pressed,
                   afterKeyboard>>

KeyboardNext ==
    \/ KeyPressed
    \/ KeyboardAdd
    \/ KeyboardSendCopy
    \/ KeyboardSendClear

KeyboardSpec == QueueInit /\ [][KeyboardNext]_vars

(***************************************************************************)
(* StreamingWebhookOutput: message_id over the analysis cycles.  A cycle   *)
(* is handle_screenshot or handle_queue_send running in a listener thread: *)
(* send_processing, the chunks of the streaming callback, handle_result.   *)
(* A generated id is named by its number.                                  *)
(***************************************************************************)
MaxCycles == 3

ServiceKeys == {"success", "answer", "model", "timestamp", "error"}

\* The dicts handed to handle_result: the results of AIService (every one
\* has the keys success, answer, timestamp) and the dict built by the except
\* block of handle_queue_send (success, error, timestamp).
ServiceResults == {[success |-> b, keys |-> ServiceKeys] : b \in BOOLEAN}
SendErrorResult == [success |-> FALSE, keys |-> {"success", "error", "timestamp"}]

\* `if self.message_id is None: self.message_id = f"{ms}-{id(self)}"`
EnsureId(mid, generated) == IF mid = None THEN Some(generated + 1) ELSE mid
Generated(mid, generated) == IF mid = None THEN generated + 1 ELSE generated

Message(type, mid, cycle) == [type |-> type, message_id |-> mid, cycle |-> cycle]

\* StreamingWebhookOutput.send: the payload reads result['answer'],
\* result['timestamp'] and result['success']; a missing key raises KeyError,
\* which the except clause logs: nothing is posted and the id is kept.
send(res, mid, cycle) ==
    IF {"answer", "timestamp", "success"} \subseteq res.keys
    THEN [messages |-> <<Message("streaming_complete", mid, cycle)>>,
          message_id |-> None]
    ELSE [messages |-> <<>>, message_id |-> mid]

\* The cycles a listener thread runs: the mouse button only single captures.
CycleKinds(t) == IF t = "mouse" THEN {"single"} ELSE {"single", "multi"}

\* The handler begins: send_processing.
CycleBegins(t) ==
    /\ cycles[t].pc = "idle"
    /\ cycle_count < MaxCycles
    /\ cycle_count' = cycle_count + 1
    /\ \E kind \in CycleKinds(t) :
          cycles' = [cycles EXCEPT ![t] = [pc |-> "analysing", cycle |-> cycle_count + 1,
                                           kind |-> kind, chunks |-> 0]]
    /\ message_id' = EnsureId(message_id, next_id)
    /\ next_id' = Generated(message_id, next_id)
    /\ messages' = Append(messages,
                          Message("processing", EnsureId(message_id, next_id),
                                  cycle_count + 1))
    /\ UNCHANGED <<serviceVars, retryVars, queueVars, mainVars, triggerVars,
                   threads, webhookVars, keyboardVars, afterMessage>>

\* The analysis forwards a fragment: send_streaming_chunk.
CycleChunk(t) ==
    /\ cycles[t].pc = "analysing"
    /\ cycles[t].chunks < MaxEvents
    /\ cycles' = [cycles EXCEPT ![t].chunks = @ + 1]
    /\ message_id' = EnsureId(message_id, next_id)
    /\ next_id' = Generated(message_id, next_id)
    /\ messages' = Append(messages,
                          Message("streaming_chunk", EnsureId(message_id, next_id),
                                  cycles[t].cycle))
    /\ UNCHANGED <<serviceVars, retryVars, queueVars, mainVars, triggerVars,
                   threads, webhookVars, keyboardVars, cycle_count, afterMessage>>

\* The analysis has returned its dict: handle_result(result) -> send.
CycleEnds(t) ==
    /\ cycles[t].pc = "analysing"
    /\ \E res \in ServiceResults :
          LET s == send(res, message_id, cycles[t].cycle)
          IN  /\ messages' = messages \o s.messages
              /\ message_id' = s.message_id
    /\ cycles' = [cycles EXCEPT ![t].pc = "idle"]
    /\ UNCHANGED <<serviceVars, retryVars, queueVars, mainVars, triggerVars,
                   threads, webhookVars, keyboardVars, next_id, cycle_count,
                   afterMessage>>

\* The try block of handle_queue_send raises after send_processing: the
\* except block hands its own dict to handle_result.
CycleRaises(t) ==
    /\ cycles[t].pc = "analysing"
    /\ cycles[t].kind = "multi"
    /\ LET s == send(SendErrorResult, message_id, cycles[t].cycle)
       IN  /\ messages' = messages \o s.messages
           /\ message_id' = s.message_id
    /\ cycles' = [cycles EXCEPT ![t].pc = "idle"]
    /\ UNCHANGED <<serviceVars, retryVars, queueVars, mainVars, triggerVars,
                   threads, webhookVars, keyboardVars, next_id, cycle_count,
                   afterMessage>>

CycleNext(t) ==
    \/ CycleBegins(t)
    \/ CycleChunk(t)
    \/ CycleEnds(t)
    \/ CycleRaises(t)

\* The middle button disabled: every cycle runs in the keyboard thread.
SequentialNext == CycleNext("keyboard")

SequentialSpec == QueueInit /\ [][SequentialNext]_vars

\* The middle button enabled: cycles of the two listener threads overlap.
SessionNext == \E t \in Listeners : CycleNext(t)

SessionSpec == QueueInit /\ [][SessionNext]_vars

(***************************************************************************)
(* KeyboardListener and MouseListener: start and stop.  Both classes have  *)
(* the same two methods; `created` counts the OS listeners constructed and *)
(* `alive` those started and not stopped.                                  *)
(***************************************************************************)
MaxListenerCalls == 6

\* A start without the `if self.running` guard.
Listener_start_NoGuard(L) ==
    [L EXCEPT !.listener = TRUE, !.created = @ + 1, !.alive = @ + 1,
              !.running = TRUE]

\* start: if self.running: return; self.listener = Listener(...);
\* self.listener.start(); self.running = True
Listener_start(L) ==
    IF L.running
    THEN L
    ELSE [L EXCEPT !.listener = TRUE, !.created = @ + 1, !.alive = @ + 1,
                   !.running = TRUE]

\* stop: if self.listener and self.running: self.listener.stop();
\* self.running = False
Listener_stop(L) ==
    IF L.listener /\ L.running
    THEN [L EXCEPT !.alive = @ - 1, !.running = FALSE]
    ELSE L

ListenerStart(l) ==
    /\ listener_calls < MaxListenerCalls
    /\ listener_calls' = listener_calls + 1
    /\ listeners' = [listeners EXCEPT ![l] = [Listener_start(@) EXCEPT !.last = "start"]]
    /\ UNCHANGED <<serviceVars, retryVars, queueVars, mainVars, triggerVars,
                   threads, webhookVars, keyboardVars, messageVars, app_running,
                   loop_pc, signalled, afterLifecycle>>

ListenerStop(l) ==
    /\ listener_calls < MaxListenerCalls
    /\ listener_calls' = listener_calls + 1
    /\ listeners' = [listeners EXCEPT ![l] = [Listener_stop(@) EXCEPT !.last = "stop"]]
    /\ UNCHANGED <<serviceVars, retryVars, queueVars, mainVars, triggerVars,
                   threads, webhookVars, keyboardVars, messageVars, app_running,
                   loop_pc, signalled, afterLifecycle>>

ListenerNext ==
    \E l \in Listeners :
        \/ ListenerStart(l)
        \/ ListenerStop(l)

ListenerSpec == QueueInit /\ [][ListenerNext]_vars

(***************************************************************************)
(* ExamsGPT.start after the connection test, stop and the signal handler.  *)
(***************************************************************************)
Signals == {"SIGINT", "SIGTERM"}

\* CaptureManager.start: the keyboard listener, and the mouse listener when
\* the middle button is enabled.
CaptureManager_start(ls, enable_middle_button) ==
    [l \in Listeners |->
        IF l = "keyboard" \/ enable_middle_button
        THEN [Listener_start(ls[l]) EXCEPT !.last = "start"]
        ELSE ls[l]]

\* CaptureManager.stop: the keyboard listener, and the mouse listener when
\* there is one (one that was never created is not running).
CaptureManager_stop(ls) ==
    [l \in Listeners |->
        IF l = "keyboard" \/ ls[l].listener
        THEN [Listener_stop(ls[l]) EXCEPT !.last = "stop"]
        ELSE ls[l]]

\* ExamsGPT.stop: if self.running: capture_manager.stop(); running = False
ExamsGPT_stop(is_running, ls) ==
    IF is_running
    THEN [running |-> FALSE, listeners |-> CaptureManager_stop(ls)]
    ELSE [running |-> is_running, listeners |-> ls]

\* start after a connection test that did not raise: capture_manager.start(),
\* self.running = True, the handlers of SIGINT and SIGTERM are registered and
\* the loop `while self.running: time.sleep(1)` begins.
StartListening ==
    /\ startup = "running"
    /\ loop_pc = "none"
    /\ \E enable_middle_button \in BOOLEAN :
          listeners' = CaptureManager_start(listeners, enable_middle_button)
    /\ app_running' = TRUE
    /\ loop_pc' = "looping"
    /\ UNCHANGED <<serviceVars, retryVars, queueVars, mainVars, triggerVars,
                   threads, webhookVars, keyboardVars, messageVars, signalled,
                   listener_calls, afterLifecycle>>

\* _signal_handler: self.running = False; self.stop()
_signal_handler(signum) ==
    /\ loop_pc = "looping"
    /\ signum \notin signalled
    /\ signalled' = signalled \cup {signum}
    /\ LET stopped == ExamsGPT_stop(FALSE, listeners)
       IN  /\ app_running' = stopped.running
           /\ listeners' = stopped.listeners
    /\ UNCHANGED <<serviceVars, retryVars, queueVars, mainVars, triggerVars,
                   threads, webhookVars, keyboardVars, messageVars, loop_pc,
                   listener_calls, afterLifecycle>>

\* The loop tests self.running after a sleep and ends; start returns.
LoopEnds ==
    /\ loop_pc = "looping"
    /\ ~app_running
    /\ loop_pc' = "ended"
    /\ UNCHANGED <<serviceVars, retryVars, queueVars, mainVars, triggerVars,
                   threads, webhookVars, keyboardVars, messageVars, app_running,
                   signalled, listeners, listener_calls, afterLifecycle>>

ShutdownNext ==
    \/ StartupNext
    \/ StartListening
    \/ \E signum \in Signals : _signal_handler(signum)
    \/ LoopEnds

ShutdownSpec == StartupInit /\ [][ShutdownNext]_vars

(***************************************************************************)
(* CaptureManager: the key_handlers dict and the dispatch of a key press.  *)
(* ExamsGPT passes all three callbacks; a key that is None or empty in the *)
(* configuration is not registered.                                        *)
(***************************************************************************)
ConfiguredKeys == {"a", "b", " a"}
PressedKeys == {"a", "b", "c"}

KeyConfigs ==
    [trigger_key : ConfiguredKeys,
     queue_key : {None} \cup {Some(k) : k \in ConfiguredKeys \cup {""}},
     send_key : {None} \cup {Some(k) : k \in ConfiguredKeys \cup {""}}]

\* A registration that keeps the handler a key already has.
Register_KeepFirst(handlers, key, handler) ==
    [k \in DOMAIN handlers \cup {key} |->
        IF k \in DOMAIN handlers THEN handlers[k] ELSE handler]

\* self.key_handlers[key] = handler
Register(handlers, key, handler) ==
    [k \in DOMAIN handlers \cup {key} |-> IF k = key THEN handler ELSE handlers[k]]

\* `if self.config.queue_key and on_queue_add_callback:` (callback present)
KeyIsSet(key) == key # None /\ key[1] # ""

\* CaptureManager.__init__: the trigger key, then the queue key, then the
\* send key.
KeyHandlers(cfg) ==
    LET h1 == Register([k \in {} |-> ""], cfg.trigger_key, "_handle_trigger")
        h2 == IF KeyIsSet(cfg.queue_key)
              THEN Register(h1, cfg.queue_key[1], "_handle_queue_add") ELSE h1
    IN  IF KeyIsSet(cfg.send_key)
        THEN Register(h2, cfg.send_key[1], "_handle_queue_send") ELSE h2

\* KeyboardListener.__init__: trigger_keys are the stripped keys of the dict.
trigger_keys(handlers) == {strip(k) : k \in DOMAIN handlers}

\* _handle_any_key: the handler of the key when it is registered.
_handle_any_key(handlers, key) ==
    IF key \in DOMAIN handlers THEN <<handlers[key]>> ELSE <<>>

\* KeyboardListener._on_press: a key among trigger_keys goes to on_trigger.
_on_press(handlers, key) ==
    IF key \in trigger_keys(handlers) THEN _handle_any_key(handlers, key) ELSE <<>>

CaptureManager_init ==
    /\ key_config.trigger_key = ""
    /\ \E cfg \in KeyConfigs :
          /\ key_config' = cfg
          /\ key_handlers' = KeyHandlers(cfg)
    /\ UNCHANGED <<serviceVars, retryVars, queueVars, mainVars, triggerVars,
                   threads, webhookVars, keyboardVars, messageVars, lifecycleVars,
                   dispatched, afterDispatch>>

KeyDispatched ==
    /\ key_config.trigger_key # ""
    /\ Len(dispatched) < MaxPresses
    /\ \E key \in PressedKeys :
          dispatched' = Append(dispatched,
                               [key |-> key, handlers |-> _on_press(key_handlers, key)])
    /\ UNCHANGED <<serviceVars, retryVars, queueVars, mainVars, triggerVars,
                   threads, webhookVars, keyboardVars, messageVars, lifecycleVars,
                   key_config, key_handlers, afterDispatch>>

DispatchNext ==
    \/ CaptureManager_init
    \/ KeyDispatched

DispatchSpec == QueueInit /\ [][DispatchNext]_vars

(***************************************************************************)
(* _get_gemini_client (provider gemini).  The first call is the one of     *)
(* test_connection in ExamsGPT.start, in the main thread before the        *)
(* listeners exist; the later ones are those of the analysis calls in the  *)
(* listener threads.  A constructed client is named by its number.         *)
(***************************************************************************)
MaxGets == 4

\* `from google import genai; genai.Client(api_key=...)` returns a client or
\* raises.
ConstructOutcomes == {TRUE, FALSE}

\* ExamsGPT.start: test_connection calls _get_gemini_client; an exception is
\* caught there (it returns False) and start goes on to start the listeners.
GeminiStartup ==
    /\ loop_pc = "none"
    /\ \E constructs \in ConstructOutcomes :
          IF constructs
          THEN /\ gemini_constructed' = gemini_constructed + 1
               /\ _gemini_client' = Some(gemini_constructed + 1)
          ELSE UNCHANGED <<gemini_constructed, _gemini_client>>
    /\ loop_pc' = "looping"
    /\ UNCHANGED <<serviceVars, retryVars, queueVars, mainVars, triggerVars,
                   threads, webhookVars, keyboardVars, messageVars, app_running,
                   signalled, listeners, listener_calls, dispatchVars, gemini_pc,
                   gemini_returned>>

\* An analysis call in thread t: `if _gemini_client is None:`, else
\* `return _gemini_client`.
GetClientTests(t) ==
    /\ loop_pc = "looping"
    /\ gemini_pc[t] = "idle"
    /\ Len(gemini_returned[t]) < MaxGets
    /\ IF _gemini_client = None
       THEN /\ gemini_pc' = [gemini_pc EXCEPT ![t] = "constructing"]
            /\ UNCHANGED gemini_returned
       ELSE /\ gemini_returned' = [gemini_returned EXCEPT
                                      ![t] = Append(@, _gemini_client[1])]
            /\ UNCHANGED gemini_pc
    /\ UNCHANGED <<serviceVars, retryVars, queueVars, mainVars, triggerVars,
                   threads, webhookVars, keyboardVars, messageVars, lifecycleVars,
                   dispatchVars, _gemini_client, gemini_constructed>>

\* `_gemini_client = genai.Client(api_key=config.gemini_api_key)`; an
\* exception ends the call.
GetClientConstructs(t) ==
    /\ gemini_pc[t] = "constructing"
    /\ \E constructs \in ConstructOutcomes :
          IF constructs
          THEN /\ gemini_constructed' = gemini_constructed + 1
               /\ _gemini_client' = Some(gemini_constructed + 1)
               /\ gemini_pc' = [gemini_pc EXCEPT ![t] = "assigned"]
          ELSE /\ gemini_pc' = [gemini_pc EXCEPT ![t] = "idle"]
               /\ UNCHANGED <<gemini_constructed, _gemini_client>>
    /\ UNCHANGED <<serviceVars, retryVars, queueVars, mainVars, triggerVars,
                   threads, webhookVars, keyboardVars, messageVars, lifecycleVars,
                   dispatchVars, gemini_returned>>

\* `return _gemini_client` after the assignment: the global is read again.
GetClientReturns(t) ==
    /\ gemini_pc[t] = "assigned"
    /\ gemini_returned' = [gemini_returned EXCEPT ![t] = Append(@, _gemini_client[1])]
    /\ gemini_pc' = [gemini_pc EXCEPT ![t] = "idle"]
    /\ UNCHANGED <<serviceVars, retryVars, queueVars, mainVars, triggerVars,
                   threads, webhookVars, keyboardVars, messageVars, lifecycleVars,
                   dispatchVars, _gemini_client, gemini_constructed>>

GeminiNext ==
    \/ GeminiStartup
    \/ \E t \in Listeners :
          \/ GetClientTests(t)
          \/ GetClientConstructs(t)
          \/ GetClientReturns(t)

GeminiSpec == QueueInit /\ [][GeminiNext]_vars

(***************************************************************************)
(* Properties.                                                             *)
(***************************************************************************)
\* The contents of the fragments of one kind in a log, in order.
RECURSIVE KindContents(_, _)
KindContents(log, kind) ==
    IF log = <<>> THEN <<>>
    ELSE (IF Head(log).kind = kind THEN <<Head(log).content>> ELSE <<>>)
         \o KindContents(Tail(log), kind)

\* The contents of all text fragments (answer and reasoning) in a log.
RECURSIVE TextContents(_)
TextContents(log) ==
    IF log = <<>> THEN <<>>
    ELSE (IF Head(log).kind \in {"answer", "reasoning"}
          THEN <<Head(log).content>> ELSE <<>>)
         \o TextContents(Tail(log))

IsPrefix(s, t) == Len(s) <= Len(t) /\ SubSeq(t, 1, Len(s)) = s

Returned == pc = "done" /\ outcome = "returned"

StreamingCall == invoked # {} /\ invoked \subseteq StreamingVariants

\* C1: every returned result has success = true iff its answer is present
\* and non-empty, iff its error is absent.
C1_ResultInvariant ==
    Returned =>
        /\ result.success <=> (result.answer # None /\ result.answer[1] # "")
        /\ result.success <=> (result.error = None)

\* C2: a call in which an exception reached the orchestrator never raises:
\* it returns a result with success = false and error = str(exception).
C2_NeverRaises ==
    (pc = "done" /\ caught # None) =>
        /\ outcome = "returned"
        /\ ~result.success
        /\ result.error = caught

C4_ReasoningOnlyWhenShown ==
    ~config.streaming_show_reasoning => KindContents(sink, "reasoning") = <<>>

\* C5: the accumulation buffer holds only text that arrived as answer
\* fragments, in arrival order.
C5_ThoughtsNotAccumulated ==
    IsPrefix(answer_chunks, KindContents(arrived, "answer"))

\* C6: a failed call for which streaming was attempted delivers exactly one
\* error fragment to the sink.
C6_SingleErrorFragment ==
    (pc = "done" /\ origin # None /\ StreamingCall) =>
        Len(KindContents(sink, "error")) = 1

\* C7: a stream that is exhausted without an answer fragment of
\* non-whitespace text fails with the MissingContent error, success = false.
C7_EmptyStreamFails ==
    (/\ pc = "done"
     /\ exhausted
     /\ \A i \in 1..Len(arrived) :
           arrived[i].kind = "answer" => strip(arrived[i].content) = "")
    => /\ origin \in {Some(EmptyStreamError), Some(EmptyGeminiStreamError)}
       /\ outcome = "returned"
       /\ ~result.success

\* C8: a streaming call that hits an error after answer fragments were
\* delivered forwards the error to the sink and returns success = false.
C8_NoPartialSuccess ==
    (/\ pc = "done"
     /\ StreamingCall
     /\ origin # None
     /\ KindContents(sink, "answer") # <<>>)
    => /\ KindContents(sink, "error") # <<>>
       /\ outcome = "returned"
       /\ ~result.success

\* C9: at every point of a streaming call the answer fragments the sink has
\* received are exactly the non-empty answer fragments of the events
\* consumed so far, one invocation each, in arrival order (after a raising
\* sink has aborted the call: a prefix of them).
C9_AnswerFragmentsInOrder ==
    /\ IsPrefix(KindContents(sink, "answer"), KindContents(arrived, "answer"))
    /\ origin # Some(SinkError) =>
          KindContents(sink, "answer") = KindContents(arrived, "answer")

\* Two different answer fragments delivered while the stream is still open.
C9_Witness ==
    /\ pc = "streaming"
    /\ Len(KindContents(sink, "answer")) = 2
    /\ sink[1].content # sink[2].content
    /\ KindContents(arrived, "reasoning") # <<>>

\* The variant the configuration selects for one image: the provider, the
\* API generation and the delivery mode, each on its own.
ExpectedSingleVariant ==
    LET family == IF config.ai_provider = "gemini" THEN "gemini"
                  ELSE IF /\ Len(config.openai_model) >= 5
                          /\ lower(SubSeq(config.openai_model, 1, 5)) = "gpt-5"
                       THEN "responses_api"
                       ELSE "completions_api"
        mode   == IF config.streaming_enabled /\ streaming_callback # "None"
                  THEN "_streaming" ELSE ""
    IN  "_analyze_with_" \o family \o mode

\* C10: a single-image analysis runs exactly one adapter variant, the one
\* the configuration selects.
C10_ExactlyOneVariant ==
    callKind = "single" => invoked = {ExpectedSingleVariant}

\* An upper-case gpt-5 model with streaming runs the Responses streaming
\* variant.
C10_Witness ==
    /\ callKind = "single"
    /\ config.openai_model = "GPT-5"
    /\ invoked = {"_analyze_with_responses_api_streaming"}

(***************************************************************************)
(* Multi-image routing and the number of vendor requests.                  *)
(***************************************************************************)
\* C11: a multi-image analysis that reaches an adapter uses a streaming
\* adapter exactly when streaming is enabled and a sink callback is present,
\* for every provider and API generation, as the single-image path does.
C11_MultiStreamsLikeSingle ==
    (callKind = "multi" /\ invoked # {}) =>
        ((invoked \subseteq StreamingVariants) <=> use_streaming)

\* C16: one invocation of analyze_exam_screenshot or analyze_multi_screenshots
\* issues at most one vendor request, also when that request fails with a
\* transient error: the failure is reported and nothing is sent again.
C16_AtMostOneRequest ==
    /\ Len(requests) <= 1
    /\ (pc = "done" /\ invoked # {}) => Len(requests) = 1

C16_Witness ==
    /\ pc = "done"
    /\ origin = Some("Request timed out.")
    /\ outcome = "returned"
    /\ ~result.success
    /\ Len(requests) = 1


(***************************************************************************)
(* The retry wrapper and the connection test.                              *)
(***************************************************************************)
\* Messages with a transient keyword in some letter case, and messages
\* without one.
TransientExamples ==
    {"Request timed out.", "Connection error.", "TIMEOUT", "Error code: 429"}

RetryRaised(e) == retry_pc = "done" /\ retry_result = [kind |-> "raised", value |-> Some(e)]

\* C12: an exception whose message holds a transient keyword in any letter
\* case is retried (the wrapper sleeps and does not end on it while attempts
\* remain); any other exception ends the wrapper at once: no further call, no
\* sleep for it, and that same exception is raised.  When it is the first
\* exception: one call, zero sleeps.
C12_TransientIffKeyword ==
    \A i \in 1..Len(attempt_errors) :
        LET e == attempt_errors[i]
        IN  IF e \in TransientExamples
            THEN i < MAX_RETRIES =>
                    /\ Len(sleeps) >= i
                    /\ ~(RetryRaised(e) /\ Len(attempt_errors) = i)
            ELSE /\ i = Len(attempt_errors)
                 /\ RetryRaised(e)
                 /\ calls = i
                 /\ Len(sleeps) = i - 1

C12_Witness ==
    /\ retry_pc = "done"
    /\ attempt_errors = <<"TIMEOUT", "invalid api key">>
    /\ calls = 2
    /\ sleeps = <<RETRY_DELAY>>

\* C13: the wrapper calls the function at most MAX_RETRIES times; when every
\* attempt failed with a transient error it has made exactly MAX_RETRIES calls
\* and raises the exception of the last attempt; and it always terminates.
C13_BoundedRetries ==
    /\ [](/\ calls <= MAX_RETRIES
          /\ Len(attempt_errors) <= calls
          /\ (/\ retry_pc = "done"
              /\ retry_result.kind = "raised"
              /\ \A i \in 1..Len(attempt_errors) : attempt_errors[i] \in TransientExamples)
             => /\ calls = MAX_RETRIES
                /\ Len(attempt_errors) = MAX_RETRIES
                /\ retry_result.value = Some(attempt_errors[MAX_RETRIES]))
    /\ (retry_pc = "looping") ~> (retry_pc = "done")

C13_Witness ==
    /\ retry_pc = "done"
    /\ calls = MAX_RETRIES
    /\ attempt_errors = <<"TIMEOUT", "Connection error.", "Request timed out.">>
    /\ retry_result.value = Some("Request timed out.")

RECURSIVE Sum(_)
Sum(seq) == IF seq = <<>> THEN 0 ELSE Head(seq) + Sum(Tail(seq))

\* C14: the wrapper sleeps RETRY_DELAY after the first failed attempt and
\* 2 * RETRY_DELAY after the second, and does not sleep after the third; a run
\* in which all three attempts fail sleeps 3 * RETRY_DELAY in total.
C14_BackoffSchedule ==
    /\ IsPrefix(sleeps, <<RETRY_DELAY, 2 * RETRY_DELAY>>)
    /\ \A i \in 1..Len(attempt_errors) :
          (attempt_errors[i] \in TransientExamples /\ i < MAX_RETRIES)
              => Len(sleeps) >= i
    /\ (retry_pc = "done" /\ Len(attempt_errors) = MAX_RETRIES)
          => /\ sleeps = <<RETRY_DELAY, 2 * RETRY_DELAY>>
             /\ Sum(sleeps) = 3 * RETRY_DELAY

C14_Witness ==
    /\ retry_pc = "done"
    /\ Len(attempt_errors) = MAX_RETRIES
    /\ retry_result.kind = "raised"
    /\ Sum(sleeps) = 6

\* C15: an exception that signals a response without content is permanent
\* for the wrapper: it ends the wrapper in the attempt that raised it, with
\* that exception, and no sleep follows it.
C15_MissingContentPermanent ==
    \A i \in 1..Len(attempt_errors) :
        attempt_errors[i] \in MissingContentErrors
            => /\ i = Len(attempt_errors)
               /\ RetryRaised(attempt_errors[i])
               /\ calls = i
               /\ Len(sleeps) = i - 1

C15_Witness ==
    /\ retry_pc = "done"
    /\ attempt_errors = <<ExtractError>>
    /\ calls = 1
    /\ sleeps = <<>>

\* C17: test_connection never raises; it returns True when its vendor
\* request completed and False when the request raised, whatever the branch
\* (Gemini, Responses, Completions) the configuration selects.
C17_TestConnectionNeverRaises ==
    func = "test_connection" =>
        /\ attempt_errors = <<>>
        /\ retry_result.kind # "raised"
        /\ \A i \in 1..Len(requests) : requests[i] = TestEndpoint
        /\ retry_pc = "done" =>
              /\ test_errors # <<>>
              /\ retry_result =
                    [kind |-> "returned",
                     value |-> Some(test_errors[Len(test_errors)] = None)]

C17_Witness ==
    /\ func = "test_connection"
    /\ retry_pc = "done"
    /\ test_errors = <<Some("Incorrect API key provided")>>
    /\ retry_result = [kind |-> "returned", value |-> Some(FALSE)]
    /\ requests = <<"chat.completions.create">>

\* C18: at startup, when the request of the connection test fails with a
\* transient error, the connection test is made again before the wrapper
\* ends (up to MAX_RETRIES attempts), and startup does not go on as if the
\* test had passed.
C18_ConnectionTestRetried ==
    (/\ func = "test_connection"
     /\ retry_pc = "done"
     /\ test_errors # <<>>
     /\ test_errors[1] = Some("Request timed out."))
        => /\ Len(requests) > 1
           /\ startup # "running"


(***************************************************************************)
(* The screenshot queue.                                                   *)
(***************************************************************************)
\* The concatenation of the lists in a sequence of lists.
RECURSIVE Flatten(_)
Flatten(lists) == IF lists = <<>> THEN <<>> ELSE Head(lists) \o Flatten(Tail(lists))

Increasing(ns) == \A i, j \in 1..Len(ns) : i < j => ns[i] < ns[j]

Range(seq) == {seq[i] : i \in 1..Len(seq)}

\* C19: the lists returned by get_all hold, in insertion order and each
\* once, the items added since the previous get_all or clear: over all drains
\* no item is returned twice, no added item is lost (an item is returned,
\* removed by clear, or still queued), what is queued was added after
\* everything returned or cleared, and get_all leaves the queue empty.
C19_DrainInOrderOnce ==
    LET out == Images(Flatten(drained))
        gone == Images(dropped)
        left == Images(queue)
    IN  /\ Increasing(out)
        /\ Increasing(left)
        /\ Len(out) + Len(gone) + Len(left) = captured
        /\ Range(out) \cup Range(gone) \cup Range(left) = 1..captured
        /\ \A n \in Range(left), m \in Range(out) \cup Range(gone) : m < n
        /\ last_op \in {"get_all", "send"} => queue = <<>>

C19_Witness ==
    /\ Len(drained) = 2
    /\ Images(drained[1]) = <<1, 2>>
    /\ Images(drained[2]) = <<3>>
    /\ queue = <<>>

\* C20: a drain of an empty queue returns the empty list and leaves the
\* queue empty, and the send handler then ends without an analysis request:
\* no empty list is ever handed to analyze_multi_screenshots, and the sends
\* that analysed are exactly those that drained something.
C20_EmptyDrainNoRequest ==
    /\ (last_op \in {"get_all", "send"} /\ drained[Len(drained)] = <<>>)
          => queue = <<>>
    /\ \A k \in 1..Len(analysed) : analysed[k] # <<>>
    /\ (last_op = "send" /\ drained[Len(drained)] = <<>>)
          => send_log[Len(send_log)] = "empty"
    /\ Len(analysed) = Len(SelectSeq(send_log, LAMBDA o : o = "analysed"))
    /\ Len(analysed) <= Len(SelectSeq(drained, LAMBDA items : items # <<>>))

C20_Witness ==
    /\ last_op = "send"
    /\ drained = <<<<>>>>
    /\ send_log = <<"empty">>
    /\ analysed = <<>>
    /\ queue = <<>>


(***************************************************************************)
(* Error fragments, the terminal answer and search pings.                  *)
(***************************************************************************)
\* C22: when the orchestrator catches an exception of an analysis for which
\* streaming was not attempted (a buffered adapter was selected), the sink
\* receives no 'error' fragment.
C22_NoErrorFragmentWithoutStreaming ==
    (pc = "done" /\ caught # None /\ invoked # {} /\ ~StreamingCall)
        => KindContents(sink, "error") = <<>>

\* C28 as claimed: the answer of a successful streaming result is the
\* stripped in-order join of the accumulation list and nothing else.
C28_AnswerIsStrippedJoin ==
    (Returned /\ result.success /\ StreamingCall)
        => result.answer = Some(strip(join(answer_chunks)))

\* C28, amended: the answer of a successful streaming result is the stripped
\* in-order join of the accumulation list; in the Gemini variants that text,
\* when it does not start with an opening brace, is then passed through the
\* JSON fallback extraction.
C28_AnswerIsStrippedJoinCleaned ==
    (Returned /\ result.success /\ StreamingCall)
        => LET joined == strip(join(answer_chunks))
           IN  result.answer =
                  Some(IF invoked \subseteq GeminiStreamingVariants
                          /\ ~startswith(joined, "{")
                       THEN _clean_json_response(joined)
                       ELSE joined)

C28_Witness ==
    /\ Returned
    /\ result.success
    /\ invoked = {"_analyze_with_gemini_streaming"}
    /\ Len(answer_chunks) = 2
    /\ result.answer # Some(strip(join(answer_chunks)))

\* C29: in a Responses-API stream every web-search start event and every
\* done event is forwarded to the sink as one 'searching' ping, in order, and
\* none of them touches the accumulation list: the list holds answer
\* fragments only and a successful answer is their stripped join.
C29_SearchPingsNotAccumulated ==
    invoked = {"_analyze_with_responses_api_streaming"} =>
        /\ KindContents(sink, "searching") = KindContents(arrived, "searching")
        /\ IsPrefix(answer_chunks, KindContents(arrived, "answer"))
        /\ (Returned /\ result.success)
              => result.answer = Some(strip(join(KindContents(arrived, "answer"))))

C29_Witness ==
    /\ invoked = {"_analyze_with_responses_api_streaming"}
    /\ Returned
    /\ result.success
    /\ KindContents(sink, "searching") = <<"searching">>
    /\ Len(answer_chunks) = 1


(***************************************************************************)
(* Startup.                                                                *)
(***************************************************************************)
\* C30: ExamsGPT.start starts the capture manager only after a connection
\* test that succeeded: the application is running only if the last request
\* of the connection test completed and test_connection returned True.
C30_ListenersOnlyAfterSuccessfulTest ==
    startup = "running" =>
        /\ test_errors # <<>>
        /\ test_errors[Len(test_errors)] = None
        /\ retry_result = [kind |-> "returned", value |-> Some(TRUE)]


(***************************************************************************)
(* Overlapping calls.                                                      *)
(***************************************************************************)
\* C21: when two streaming calls overlap, the list a call accumulates into
\* holds the answer fragments of its own stream only, in order, and the
\* answer it returns is the stripped join of those fragments.
C21_OwnBufferPerCall ==
    \A t \in Listeners :
        /\ threads[t].pc \in {"streaming", "done", "failed"}
              => threads[t].answer_content = threads[t].stream
        /\ threads[t].pc = "done"
              => threads[t].answer = Some(strip(join(threads[t].stream)))
        /\ threads[t].pc = "failed" => strip(join(threads[t].stream)) = ""

\* The fragments of the two calls alternate in the sink (so the calls
\* overlapped), and the calls return different answers.
C21_Witness ==
    /\ threads["keyboard"].pc = "done"
    /\ threads["mouse"].pc = "done"
    /\ threads["keyboard"].answer = Some("a{a}")
    /\ threads["mouse"].answer = Some("{a}a")
    /\ KindContents(sink, "answer") = <<"a", "{a}", "a", "{a}">>


(***************************************************************************)
(* Startup.                                                                *)
(***************************************************************************)
CredentialErrors == {OpenAIKeyMissing, GeminiKeyMissing}

\* The credential of the selected provider is missing.
SelectedCredentialMissing(s) ==
    \/ lower(s.provider) = "openai" /\ ~s.openai_api_key
    \/ lower(s.provider) = "gemini" /\ ~s.gemini_api_key

\* C23: when the credential of the selected provider is missing, the
\* construction of the configuration fails before any AI client exists and
\* before any request, the process ends with that error and the failure is
\* not retried; when the credential of the selected provider is present, a
\* missing credential of the other provider is no error.
C23_MissingCredentialFatalBeforeClients ==
    settings # None =>
        LET s == settings[1]
        IN  /\ (s.env_file /\ SelectedCredentialMissing(s)) =>
                  /\ clients = {}
                  /\ requests = <<>>
                  /\ init_attempt = 0
                  /\ init_sleeps = <<>>
                  /\ main_pc \in {"loop", "exited"}
                  /\ main_pc = "exited" =>
                        /\ fatal \in {Some(e) : e \in CredentialErrors}
                        /\ fatal = ConfigError(s)
            /\ ~SelectedCredentialMissing(s) =>
                  fatal \notin {Some(e) : e \in CredentialErrors}

\* The selected provider's credential is missing and the process has ended;
\* and, in another run, only the other provider's credential is missing and
\* the application runs.
C23_Witness ==
    /\ settings # None
    /\ settings[1].env_file
    /\ settings[1].provider = "Gemini"
    /\ ~settings[1].gemini_api_key
    /\ settings[1].openai_api_key
    /\ main_pc = "exited"
    /\ fatal = Some(GeminiKeyMissing)

C23_WitnessOtherCredential ==
    /\ settings # None
    /\ settings[1].provider = "openai"
    /\ ~settings[1].gemini_api_key
    /\ startup = "running"
    /\ clients = {"OpenAI"}

SupportedFormats == {"png", "jpeg", "webp"}

\* C25: an application is constructed only with one of the image formats
\* png, jpeg and webp, so that every encode saves the image in the format
\* the configuration names.
C25_UnsupportedFormatRejectedAtStartup ==
    (settings # None /\ main_pc = "constructed") =>
        /\ settings[1].screenshot_format \in SupportedFormats
        /\ lower(save_format(settings[1].screenshot_format))
              = settings[1].screenshot_format


(***************************************************************************)
(* Capture failures.                                                       *)
(***************************************************************************)
\* The images of the triggers of one key whose grab succeeded, in order.
RECURSIVE Grabbed(_, _)
Grabbed(log, key) ==
    IF log = <<>> THEN <<>>
    ELSE (IF Head(log).key = key /\ Head(log).grabbed
          THEN <<Head(log).image>> ELSE <<>>) \o Grabbed(Tail(log), key)

\* The triggers that capture the screen.
Capturing(log) == SelectSeq(log, LAMBDA e : e.key \in {"trigger", "queue"})

\* C24: a failed capture ends its trigger only.  Every capturing trigger
\* grabs the screen once (no retry); the images analysed singly are those of
\* the trigger presses whose grab succeeded, each once and in order; the
\* images queued or sent from the queue are those of the queue presses whose
\* grab succeeded; a result is delivered only for an analysis, so a failed
\* capture delivers nothing and changes neither the queue nor its status.
C24_CaptureFailureEndsTriggerOnly ==
    /\ grabs = Len(Capturing(trigger_log))
    /\ single_analysed = Grabbed(trigger_log, "trigger")
    /\ Images(Flatten(analysed) \o queue) = Grabbed(trigger_log, "queue")
    /\ Len(handled) = Len(single_analysed) + Len(analysed)
    /\ Range(Flatten([i \in 1..Len(handled) |-> handled[i].images]))
          = Range(single_analysed) \cup Range(Images(Flatten(analysed)))
    /\ Len(queue_status) = Len(Grabbed(trigger_log, "queue")) + Len(send_log)

\* A trigger press and a queue press whose captures failed, each followed by
\* a press of the same key that was processed.
C24_Witness ==
    /\ Len(trigger_log) = 4
    /\ trigger_log[1].key = "trigger" /\ ~trigger_log[1].grabbed
    /\ trigger_log[2].key = "queue" /\ ~trigger_log[2].grabbed
    /\ trigger_log[3].key = "trigger" /\ trigger_log[3].grabbed
    /\ trigger_log[4].key = "queue" /\ trigger_log[4].grabbed
    /\ single_analysed = <<3>>
    /\ Images(queue) = <<4>>
    /\ Len(handled) = 1
    /\ queue_status = <<1>>


(***************************************************************************)
(* Webhook delivery.                                                       *)
(***************************************************************************)
Delivered(o) == o.status_code = 200

\* C26: a webhook delivery makes at most three POSTs; it stops at the first
\* one answered with status 200 and returns True; it returns False when all
\* three fail; no failure of a POST raises out of it; it waits 0.5 s after the
\* first failure and 1.0 s after the second, and does not wait after the last.
C26_WebhookRetry ==
    /\ Len(posts) <= 3
    /\ \A i \in 1..Len(posts) : Delivered(posts[i]) => i = Len(posts)
    /\ send_pc # "raised"
    /\ waits = SubSeq(<<500, 1000>>, 1,
                      Len(SelectSeq(SubSeq(posts, 1, IF Len(posts) > 2 THEN 2 ELSE Len(posts)),
                                    LAMBDA o : ~Delivered(o))))
    /\ send_pc = "returned" =>
          /\ send_result \in {Some(TRUE), Some(FALSE)}
          /\ send_result = Some(TRUE) <=> Delivered(posts[Len(posts)])
          /\ send_result = Some(FALSE) =>
                /\ Len(posts) = 3
                /\ \A i \in 1..3 : ~Delivered(posts[i])
    /\ send_pc = "sending" =>
          /\ Len(posts) < 3
          /\ send_result = None

\* Two failed attempts of different kinds, then a delivery; and a call whose
\* three attempts fail.
C26_Witness ==
    /\ send_pc = "returned"
    /\ posts = <<PostRaises("Timeout"), Response(500), Response(200)>>
    /\ waits = <<500, 1000>>
    /\ send_result = Some(TRUE)

C26_WitnessAllFail ==
    /\ send_pc = "returned"
    /\ posts = <<PostRaises("ConnectionError"), PostRaises("Exception"), Response(404)>>
    /\ waits = <<500, 1000>>
    /\ send_result = Some(FALSE)


(***************************************************************************)
(* Streaming chunk delivery.                                               *)
(***************************************************************************)
WebhookStreaming == streaming_callback = "send_streaming_chunk"

\* C27: with the webhook sink, every invocation of the callback makes one
\* POST and no second one; a failed POST raises nothing into the call (no
\* exception of the sink is ever raised or caught); every answer fragment
\* that arrives, also after a failed POST, is posted; the call returns a
\* result, and when the stream ends normally it is the one the accumulated
\* fragments give.
C27_ChunkPostedOnceFailureIgnored ==
    WebhookStreaming =>
        /\ chunk_posts.invocations = Len(sink)
        /\ chunk_posts.made = chunk_posts.invocations
        /\ raised # Some(SinkError)
        /\ caught # Some(SinkError)
        /\ StreamingCall =>
              KindContents(sink, "answer") = KindContents(arrived, "answer")
        /\ (pc = "done" /\ StreamingCall) => Returned
        /\ (Returned /\ StreamingCall /\ exhausted) =>
              LET joined == strip(join(answer_chunks))
              IN  /\ result.success <=> joined # ""
                  /\ result.success =>
                        result.answer =
                            Some(IF invoked \subseteq GeminiStreamingVariants
                                 THEN GeminiFallback(joined) ELSE joined)

\* The POST of the first chunk fails, the second chunk is posted, and the
\* call returns the answer made of both.
C27_Witness ==
    /\ WebhookStreaming
    /\ Returned
    /\ result.success
    /\ result.answer = Some("a{a}")
    /\ KindContents(sink, "answer") = <<"a", "{a}">>
    /\ chunk_posts = [invocations |-> 2, made |-> 2, failed |-> 1, after_failure |-> 1]


(***************************************************************************)
(* Initialization attempts of main.                                        *)
(***************************************************************************)
TransientInitExamples == {"Connection refused"}

\* C40: main makes at most three initialization attempts; the i-th failed
\* attempt is followed by a wait and another attempt exactly when its error
\* is transient and i < 3; the waits are 2 s, then 4 s; any other failure
\* ends the process with that error, and nothing is attempted after it.
C40_InitAttemptsBounded ==
    /\ Len(init_errors) <= 3
    /\ init_attempt = Len(init_sleeps)
    /\ IsPrefix(init_sleeps, <<2, 4>>)
    /\ \A i \in 1..Len(init_errors) :
          i <= Len(init_sleeps) <=> (init_errors[i] \in TransientInitExamples /\ i < 3)
    /\ main_pc \in {"loop", "constructed"} => Len(init_errors) = Len(init_sleeps)
    /\ (main_pc = "exited" /\ init_errors # <<>>) =>
          /\ Len(init_errors) = Len(init_sleeps) + 1
          /\ fatal = Some(init_errors[Len(init_errors)])
    /\ (settings # None /\ main_pc = "exited") => fatal # None

\* Three transient failures: two waits, then the process ends.
C40_Witness ==
    /\ main_pc = "exited"
    /\ init_errors = <<"Connection refused", "Connection refused", "Connection refused">>
    /\ init_sleeps = <<2, 4>>
    /\ fatal = Some("Connection refused")

\* A transient failure followed by a non-transient one ends at once.
C40_WitnessPermanent ==
    /\ main_pc = "exited"
    /\ init_errors = <<"Connection refused", "Permission denied">>
    /\ init_sleeps = <<2>>


(***************************************************************************)
(* Analysis cycles.                                                        *)
(***************************************************************************)
CycleOps(cycle) ==
    LET steps == SelectSeq(cycle_log, LAMBDA c : c.cycle = cycle)
    IN  [i \in 1..Len(steps) |-> <<steps[i].op, steps[i].images>>]

\* The outcomes of the analyses of one kind of cycle, and the outcomes the
\* results handed to handle_result carry.
CycleOutcomes(cycle, op) ==
    LET steps == SelectSeq(cycle_log, LAMBDA c : c.cycle = cycle /\ c.op = op)
    IN  [i \in 1..Len(steps) |-> steps[i].success]

RECURSIVE SingleCycles(_)
SingleCycles(images) ==
    IF images = <<>> THEN <<>>
    ELSE <<<<"send_processing", <<Head(images)>>>>,
           <<"analyze_exam_screenshot", <<Head(images)>>>>,
           <<"handle_result", <<Head(images)>>>>>> \o SingleCycles(Tail(images))

\* C31: for every trigger whose capture succeeded the handler makes, in this
\* order and once each, the processing notification, the analysis call on the
\* captured image and the delivery of a result; the delivered result is the
\* one the analysis returned, successful or not.
C31_SingleCycleOrder ==
    /\ CycleOps("single") = SingleCycles(Grabbed(trigger_log, "trigger"))
    /\ CycleOutcomes("single", "handle_result")
          = CycleOutcomes("single", "analyze_exam_screenshot")

\* Two triggers handled, the first analysis failed and the second succeeded,
\* both results delivered.
C31_Witness ==
    /\ Grabbed(trigger_log, "trigger") = <<1, 2>>
    /\ CycleOutcomes("single", "handle_result") = <<FALSE, TRUE>>
    /\ Len(cycle_log) = 6

RECURSIVE MultiCycles(_)
MultiCycles(lists) ==
    IF lists = <<>> THEN <<>>
    ELSE <<<<"send_processing", Images(Head(lists))>>,
           <<"analyze_multi_screenshots", Images(Head(lists))>>,
           <<"handle_result", Images(Head(lists))>>>> \o MultiCycles(Tail(lists))

\* C32: a send with n >= 1 queued screenshots calls analyze_multi_screenshots
\* once, with exactly the screenshots queued since the previous send, in
\* insertion order, delivers one result, and leaves the queue empty.
C32_SendAnalysesQueueOnce ==
    /\ CycleOps("multi") = MultiCycles(analysed)
    /\ \A i \in 1..Len(analysed) : analysed[i] # <<>>
    /\ Len(analysed) = Len(SelectSeq(drained, LAMBDA d : d # <<>>))
    /\ Images(Flatten(analysed) \o queue) = Grabbed(trigger_log, "queue")
    /\ last_op = "send" => queue = <<>>

\* Two screenshots queued and sent in one call.
C32_Witness ==
    /\ Grabbed(trigger_log, "queue") = <<1, 2>>
    /\ last_op = "send"
    /\ CycleOps("multi") = <<<<"send_processing", <<1, 2>>>>,
                             <<"analyze_multi_screenshots", <<1, 2>>>>,
                             <<"handle_result", <<1, 2>>>>>>
    /\ queue = <<>>


C33_WitnessAfter ==
    /\ kb_pc = "idle"
    /\ pressed = 3
    /\ pending = <<>>
    /\ Images(Flatten(drained)) = <<1>>
    /\ Images(queue) = <<2>>


C35_OverlappingCyclesKeepIds ==
    /\ \A i, j \in 1..Len(messages) :
          messages[i].cycle # messages[j].cycle
              => messages[i].message_id # messages[j].message_id
    /\ (\E t \in Listeners : cycles[t].pc = "analysing") => message_id # None


(***************************************************************************)
(* Shutdown and the listeners.                                             *)
(***************************************************************************)
\* C36: once a signal has been handled the application is no longer running,
\* and when the main loop has ended after a signal no listener is running.
C36_SignalStopsListeners ==
    /\ signalled # {} => ~app_running
    /\ (signalled # {} /\ loop_pc = "ended")
          => \A l \in Listeners : ~listeners[l].running

\* C37: a listener is running exactly when its last call was a start, one OS
\* listener is alive while it is running and none otherwise, and an OS
\* listener is created only by a start that found the listener stopped.
C37_RunningIffStarted ==
    \A l \in Listeners :
        /\ listeners[l].running <=> listeners[l].last = "start"
        /\ listeners[l].alive = IF listeners[l].running THEN 1 ELSE 0
        /\ listeners[l].listener <=> listeners[l].created > 0
        /\ listeners[l].created <= (listener_calls + 1) \div 2

\* Reached: a listener started, stopped and started again (two OS listeners
\* created, one alive), the other stopped without ever being started.
C37_Witness ==
    /\ listeners["keyboard"].running
    /\ listeners["keyboard"].created = 2
    /\ listeners["mouse"].last = "stop"
    /\ listeners["mouse"].created = 0


C39_OneGeminiClient ==
    /\ gemini_constructed <= 1
    /\ \A t, u \in Listeners :
          \A i \in 1..Len(gemini_returned[t]), j \in 1..Len(gemini_returned[u]) :
              gemini_returned[t][i] = gemini_returned[u][j]

==============================================================================
